---- MODULE Spec2Model ----
(***************************************************************************)
(* A model of the resilience utilities of github-auto.                     *)
(*                                                                         *)
(* Part 1: the Cache class of src/utils/cache.js (src/unnamed/part_001):   *)
(* an in-memory key/value store with TTL expiry, an entry-count cap with   *)
(* LRU eviction, and a memory ceiling.  JavaScript runs every method to    *)
(* completion, so each synchronous method is one action; the asynchronous  *)
(* getOrSet is two actions around its await.                               *)
(*                                                                         *)
(* Part 2: retry and the CircuitBreaker class of src/utils/retry.js.  A    *)
(* call of retry is followed from await to await; execute is two actions   *)
(* around its await of the wrapped operation, and several execute calls    *)
(* may be waiting at once.                                                 *)
(***************************************************************************)
EXTENDS Integers, Sequences, FiniteSets, TLC

VARIABLES
    cache,      \* the Cache object: its fields as a record
    now,        \* Date.now()
    calls,      \* per caller: the getOrSet call suspended at its await
    written,    \* per key: the value of the latest successful set that is still in force
    recent,     \* the key the latest successful get or set touched, and which it was
    scen,       \* progress through the maxSize = 2 scenario set a, set b, get b, set c
    run,        \* the call of retry in progress, with the log of what it did
    breaker,    \* the CircuitBreaker object: its fields as a record
    execs,      \* per caller: the execute call suspended at its await
    streak,     \* the failures recorded since the last recorded success
    tally,      \* what the wrapped operation did so far, counted as its calls end
    managed,    \* apiCache, repoCache and analysisCache, the caches the janitor sweeps
    janitor,    \* the timer of startCacheCleanup
    probe       \* a pure function under study: its input, and its output once computed

cacheVars == <<cache, now, calls, written, recent, scen>>

retryVars == <<run>>

breakerVars == <<breaker, execs, streak, tally>>

janitorVars == <<managed, janitor>>

probeVars == <<probe>>

vars == <<cacheVars, retryVars, breakerVars, janitorVars, probeVars>>

----------------------------------------------------------------------------
(* Bounds of the model *)

\* Date.now() ranges over 0..MaxTime.
MaxTime == 2

\* The constructor's maxSize option ranges over 1..MaxMaxSize.
MaxMaxSize == 2

\* The stats counters are followed up to these values.
MaxHits == 1

MaxMisses == 1

MaxEvictions == 2

MaxSets == 3

\* The constructor's maxMemorySize option, in bytes.
MemLimit == 16

----------------------------------------------------------------------------
(* Inputs *)

Keys == {"a", "b", "c"}

\* The key that fails JavaScript's `!key` test.
EmptyKey == ""

KeyInputs == Keys \cup {EmptyKey}

\* A value is its typeof tag and, for a number, the number; for a string or an
\* object, the length of the string or of its JSON text.
VNull == [type |-> "null", v |-> 0]

Num(n) == [type |-> "number", v |-> n]

Str(n) == [type |-> "string", v |-> n]

Values == {VNull, Num(1), Str(5), Str(10)}

\* The ttl argument; 0 (or anything not > 0) means no expiry.
TTLs == {0, 1}

\* The constructor's defaultTTL option.
DefaultTTL == 1

Callers == {1, 2}

\* entry.expiresAt = null
Null == -1

\* An error is its code and the status of its response (0: it has no response).
ErrTimeout == [code |-> "ETIMEDOUT", status |-> 0]

ErrServer == [code |-> "", status |-> 503]

ErrNotFound == [code |-> "", status |-> 404]

Errors == {ErrTimeout, ErrServer, ErrNotFound}

\* No error: the undefined of a variable not assigned yet.
NoError == [code |-> "undefined", status |-> 0]

----------------------------------------------------------------------------
(* Helpers on JavaScript Maps.  storage is a function on the stored keys;   *)
(* accessOrder is the Map's entries in insertion order, which is the order  *)
(* Array.from(map.entries()) lists them in.                                 *)

Min(a, b) == IF a <= b THEN a ELSE b

\* new Map()
EmptyMap == [k \in {} |-> 0]

MapSize(m) == Cardinality(DOMAIN m)

MapDelete(m, key) == [k \in (DOMAIN m) \ {key} |-> m[k]]

MapSet(m, key, e) == [k \in (DOMAIN m) \cup {key} |-> IF k = key THEN e ELSE m[k]]

OrderKeys(ao) == {ao[i].key : i \in 1..Len(ao)}

OrderHas(ao, key) == key \in OrderKeys(ao)

OrderDelete(ao, key) == SelectSeq(ao, LAMBDA e : e.key # key)

\* Array.prototype.sort with the comparator (a, b) => a - b on the time: stable.
RECURSIVE SortByTime(_)
SortByTime(s) ==
    IF s = <<>> THEN <<>>
    ELSE LET init == SortByTime(SubSeq(s, 1, Len(s) - 1))
             e == s[Len(s)]
             p == Cardinality({i \in 1..Len(init) : init[i].t <= e.t})
         IN SubSeq(init, 1, p) \o <<e>> \o SubSeq(init, p + 1, Len(init))

\* Math.floor(maxSize * 0.1)
EvictCountFloor(maxSize) == maxSize \div 10

\* Math.ceil(maxSize * 0.1)
EvictCount(maxSize) == (maxSize + 9) \div 10

\* A number that is not an integer, or need not be: a fraction in lowest terms.
RECURSIVE GCD(_, _)
GCD(a, b) == IF b = 0 THEN a ELSE GCD(b, a % b)

Fraction(num, den) ==
    LET g == GCD(num, den) IN [num |-> num \div g, den |-> den \div g]

\* x / y || 0: the quotient, or 0 for the NaN of 0 / 0 and for 0 itself.
QuotientOrZero(x, y) == IF y = 0 THEN Fraction(0, 1) ELSE Fraction(x, y)

----------------------------------------------------------------------------
(* The Cache class *)

\* constructor
NewCache(maxSize, defaultTTL, maxMemorySize) ==
    [maxSize       |-> maxSize,
     defaultTTL    |-> defaultTTL,
     maxMemorySize |-> maxMemorySize,
     storage       |-> EmptyMap,
     accessOrder   |-> <<>>,
     memoryUsage   |-> 0,
     stats         |-> [hits |-> 0, misses |-> 0, evictions |-> 0, sets |-> 0]]

getMemorySize(value) ==
    CASE value.type = "null"      -> 0
      [] value.type = "undefined" -> 0
      [] value.type = "string"    -> value.v * 2
      [] value.type = "number"    -> 8
      [] value.type = "boolean"   -> 4
      [] value.type = "object"    -> value.v * 2
      [] OTHER                    -> 0

updateAccessOrder(this, key, t) ==
    [this EXCEPT !.accessOrder =
        Append(IF OrderHas(@, key) THEN OrderDelete(@, key) ELSE @,
               [key |-> key, t |-> t])]

\* delete without its accessOrder.delete(key)
deleteKeepOrder(this, key) ==
    IF key \in DOMAIN this.storage
    THEN [this EXCEPT !.memoryUsage = @ - this.storage[key].size,
                      !.storage     = MapDelete(@, key)]
    ELSE this

\* delete: the cache afterwards (the returned boolean is deleteRet)
delete(this, key) ==
    IF key \in DOMAIN this.storage
    THEN [this EXCEPT !.memoryUsage = @ - this.storage[key].size,
                      !.storage     = MapDelete(@, key),
                      !.accessOrder = OrderDelete(@, key)]
    ELSE this

deleteRet(this, key) == key \in DOMAIN this.storage

\* the loop body of evictLRU over the sliced entries
RECURSIVE evictEach(_, _)
evictEach(this, victims) ==
    IF victims = <<>> THEN this
    ELSE evictEach([delete(this, Head(victims).key) EXCEPT !.stats.evictions = @ + 1],
                   Tail(victims))

\* evictLRU slicing the most recently used end of the sorted entries
evictMRU(this) ==
    LET entries == SortByTime(this.accessOrder)
        n == Min(Len(entries), EvictCount(this.maxSize))
    IN evictEach(this, SubSeq(entries, Len(entries) - n + 1, Len(entries)))

evictLRU(this) ==
    LET entries == SortByTime(this.accessOrder)
    IN evictEach(this, SubSeq(entries, 1, Min(Len(entries), EvictCount(this.maxSize))))

\* the expiry test without its guard for an entry that has no expiresAt:
\* null < now compares as 0 < now
isExpiredNullAsZero(entry, t) ==
    IF entry.expiresAt = Null THEN 0 < t ELSE entry.expiresAt < t

\* the expiry test with <= for <
isExpiredEarly(entry, t) ==
    entry.expiresAt # Null /\ entry.expiresAt # 0 /\ entry.expiresAt <= t

\* entry.expiresAt && entry.expiresAt < now
isExpired(entry, t) ==
    entry.expiresAt # Null /\ entry.expiresAt # 0 /\ entry.expiresAt < t

RECURSIVE deleteAll(_, _)
deleteAll(this, keys) ==
    IF keys = {} THEN this
    ELSE LET k == CHOOSE x \in keys : TRUE
         IN deleteAll(delete(this, k), keys \ {k})

cleanupExpired(this, t) ==
    deleteAll(this, {k \in DOMAIN this.storage : isExpired(this.storage[k], t)})

\* the capacity test with > for >=
evictIfOverCapacity(this) ==
    IF MapSize(this.storage) > this.maxSize THEN evictLRU(this) ELSE this

\* set, lines 95-98
evictIfAtCapacity(this) ==
    IF MapSize(this.storage) >= this.maxSize THEN evictLRU(this) ELSE this

\* lines 100-106 testing memoryUsage without the size of the new value
RECURSIVE evictForMemoryIgnoringSize(_, _)
evictForMemoryIgnoringSize(this, size) ==
    IF this.memoryUsage > this.maxMemorySize /\ MapSize(this.storage) > 0
    THEN evictForMemoryIgnoringSize(evictLRU(this), size)
    ELSE this

\* set, lines 100-106
RECURSIVE evictForMemory(_, _)
evictForMemory(this, size) ==
    IF this.memoryUsage + size > this.maxMemorySize /\ MapSize(this.storage) > 0
    THEN evictForMemory(evictLRU(this), size)
    ELSE this

\* lines 108-126 without the subtraction of the old entry's size
insertEntryNoDrop(this, key, value, ttl, size, t) ==
    LET entry == [value       |-> value,
                  createdAt   |-> t,
                  expiresAt   |-> IF ttl > 0 THEN t + ttl ELSE Null,
                  size        |-> size,
                  accessCount |-> 0]
        stored == [this EXCEPT !.storage     = MapSet(@, key, entry),
                               !.memoryUsage = @ + size]
    IN [updateAccessOrder(stored, key, t) EXCEPT !.stats.sets = @ + 1]

\* set, lines 108-126
insertEntry(this, key, value, ttl, size, t) ==
    LET dropped == IF key \in DOMAIN this.storage
                   THEN [this EXCEPT !.memoryUsage =
                            @ - getMemorySize(this.storage[key].value)]
                   ELSE this
        entry == [value       |-> value,
                  createdAt   |-> t,
                  expiresAt   |-> IF ttl > 0 THEN t + ttl ELSE Null,
                  size        |-> size,
                  accessCount |-> 0]
        stored == [dropped EXCEPT !.storage     = MapSet(@, key, entry),
                                  !.memoryUsage = @ + size]
    IN [updateAccessOrder(stored, key, t) EXCEPT !.stats.sets = @ + 1]

\* A call of set that ends at one of its two guards, with the cache untouched.
setRefused(this, ret) ==
    [this |-> this, ret |-> ret, swept |-> {}, countEvicted |-> {}, memEvicted |-> {}]

\* set past its guards with the entry-count check before the expiry sweep
setStoreCountFirst(this, key, value, ttl, size, t) ==
    LET c1 == evictIfAtCapacity(this)
        c2 == cleanupExpired(c1, t)
        c3 == evictForMemory(c2, size)
    IN [this         |-> insertEntry(c3, key, value, ttl, size, t),
        ret          |-> "true",
        swept        |-> (DOMAIN c1.storage) \ (DOMAIN c2.storage),
        countEvicted |-> (DOMAIN this.storage) \ (DOMAIN c1.storage),
        memEvicted   |-> (DOMAIN c2.storage) \ (DOMAIN c3.storage)]

\* set past its guards (lines 92-128): the cache afterwards, the returned true,
\* and the keys each of the three removal steps took out.
setStore(this, key, value, ttl, size, t) ==
    LET c1 == cleanupExpired(this, t)
        c2 == evictIfAtCapacity(c1)
        c3 == evictForMemory(c2, size)
    IN [this         |-> insertEntry(c3, key, value, ttl, size, t),
        ret          |-> "true",
        swept        |-> (DOMAIN this.storage) \ (DOMAIN c1.storage),
        countEvicted |-> (DOMAIN c1.storage) \ (DOMAIN c2.storage),
        memEvicted   |-> (DOMAIN c2.storage) \ (DOMAIN c3.storage)]

\* set with the expiry sweep moved before the size guard
setSweepFirst(this, key, value, ttl, t) ==
    LET size == getMemorySize(value)
    IN IF key = EmptyKey THEN setRefused(this, "throw")
       ELSE IF size > this.maxMemorySize
       THEN setRefused(cleanupExpired(this, t), "false")
       ELSE setStore(this, key, value, ttl, size, t)

\* set without its key guard
setNoKeyCheck(this, key, value, ttl, t) ==
    LET size == getMemorySize(value)
    IN IF size > this.maxMemorySize THEN setRefused(this, "false")
       ELSE setStore(this, key, value, ttl, size, t)

\* set: what the call returned is "throw", "false" or "true".
set(this, key, value, ttl, t) ==
    LET size == getMemorySize(value)
    IN IF key = EmptyKey THEN setRefused(this, "throw")
       ELSE IF size > this.maxMemorySize THEN setRefused(this, "false")
       ELSE setStore(this, key, value, ttl, size, t)

\* get without the delete of an expired entry
getKeepExpired(this, key, t) ==
    IF key = EmptyKey THEN [this |-> this, ret |-> "miss", val |-> VNull]
    ELSE IF key \notin DOMAIN this.storage \/ isExpired(this.storage[key], t)
    THEN [this |-> [this EXCEPT !.stats.misses = @ + 1], ret |-> "miss", val |-> VNull]
    ELSE [this |-> [updateAccessOrder(
                        [this EXCEPT !.storage[key].accessCount = @ + 1], key, t)
                    EXCEPT !.stats.hits = @ + 1],
          ret |-> "hit", val |-> this.storage[key].value]

\* get without its updateAccessOrder(key)
getNoTouch(this, key, t) ==
    IF key = EmptyKey THEN [this |-> this, ret |-> "miss", val |-> VNull]
    ELSE IF key \notin DOMAIN this.storage
    THEN [this |-> [this EXCEPT !.stats.misses = @ + 1], ret |-> "miss", val |-> VNull]
    ELSE IF isExpired(this.storage[key], t)
    THEN [this |-> [delete(this, key) EXCEPT !.stats.misses = @ + 1],
          ret |-> "miss", val |-> VNull]
    ELSE [this |-> [this EXCEPT !.storage[key].accessCount = @ + 1,
                                !.stats.hits = @ + 1],
          ret |-> "hit", val |-> this.storage[key].value]

\* get: the cache afterwards, "hit" or "miss", and the returned value (VNull for null)
get(this, key, t) ==
    IF key = EmptyKey THEN [this |-> this, ret |-> "miss", val |-> VNull]
    ELSE IF key \notin DOMAIN this.storage
    THEN [this |-> [this EXCEPT !.stats.misses = @ + 1], ret |-> "miss", val |-> VNull]
    ELSE IF isExpired(this.storage[key], t)
    THEN [this |-> [delete(this, key) EXCEPT !.stats.misses = @ + 1],
          ret |-> "miss", val |-> VNull]
    ELSE [this |-> [updateAccessOrder(
                        [this EXCEPT !.storage[key].accessCount = @ + 1], key, t)
                    EXCEPT !.stats.hits = @ + 1],
          ret |-> "hit", val |-> this.storage[key].value]

\* has counting as a use of the entry, the way get does
hasTouches(this, key, t) ==
    IF key \notin DOMAIN this.storage THEN [this |-> this, ret |-> "false"]
    ELSE IF isExpired(this.storage[key], t)
    THEN [this |-> delete(this, key), ret |-> "false"]
    ELSE [this |-> updateAccessOrder(this, key, t), ret |-> "true"]

\* has: the cache afterwards and the returned boolean
has(this, key, t) ==
    IF key \notin DOMAIN this.storage THEN [this |-> this, ret |-> "false"]
    ELSE IF isExpired(this.storage[key], t)
    THEN [this |-> delete(this, key), ret |-> "false"]
    ELSE [this |-> this, ret |-> "true"]

clear(this) ==
    [this EXCEPT !.storage     = EmptyMap,
                 !.accessOrder = <<>>,
                 !.memoryUsage = 0,
                 !.stats       = [hits |-> 0, misses |-> 0, evictions |-> 0, sets |-> 0]]

\* getStats with hits / misses for the hit rate
getStatsHitsPerMiss(this) ==
    [hits            |-> this.stats.hits,
     misses          |-> this.stats.misses,
     evictions       |-> this.stats.evictions,
     sets            |-> this.stats.sets,
     size            |-> MapSize(this.storage),
     memoryUsage     |-> this.memoryUsage,
     hitRate         |-> QuotientOrZero(this.stats.hits, this.stats.misses),
     averageItemSize |-> QuotientOrZero(this.memoryUsage, MapSize(this.storage))]

getStats(this) ==
    [hits            |-> this.stats.hits,
     misses          |-> this.stats.misses,
     evictions       |-> this.stats.evictions,
     sets            |-> this.stats.sets,
     size            |-> MapSize(this.storage),
     memoryUsage     |-> this.memoryUsage,
     hitRate         |-> QuotientOrZero(this.stats.hits,
                                        this.stats.hits + this.stats.misses),
     averageItemSize |-> QuotientOrZero(this.memoryUsage, MapSize(this.storage))]

\* getOrSet taking every stored entry, a stored null too, for a cached value
getOrSetBeginNullIsCached(this, key, t) ==
    LET g == get(this, key, t)
    IN IF g.ret = "hit"
       THEN [this |-> g.this, got |-> g.ret, outcome |-> "return", val |-> g.val,
             fetches |-> 0]
       ELSE [this |-> g.this, got |-> g.ret, outcome |-> "await", val |-> VNull,
             fetches |-> 1]

\* getOrSet up to its await (lines 216-223): get, then either return the cached
\* value or invoke fetchFunction; fetches counts the invocations.
getOrSetBegin(this, key, t) ==
    LET g == get(this, key, t)
    IN IF g.val # VNull
       THEN [this |-> g.this, got |-> g.ret, outcome |-> "return", val |-> g.val,
             fetches |-> 0]
       ELSE [this |-> g.this, got |-> g.ret, outcome |-> "await", val |-> VNull,
             fetches |-> 1]

\* getOrSet returning the fetched value without the call of set
getOrSetEndNoStore(this, key, value, ttl, t) ==
    [this |-> this, outcome |-> "return", val |-> value, stored |-> FALSE, gone |-> {}]

\* getOrSet keeping the value another call stored in the meantime
getOrSetEndKeepFirst(this, key, value, ttl, t) ==
    IF key \in DOMAIN this.storage
    THEN [this |-> this, outcome |-> "return", val |-> value, stored |-> FALSE,
          gone |-> {}]
    ELSE getOrSetEndNoStore(set(this, key, value, ttl, t).this, key, value, ttl, t)

\* getOrSet after its await, when fetchFunction resolved with value (lines
\* 224-228): set, whose return value is dropped and whose error is thrown again.
getOrSetEnd(this, key, value, ttl, t) ==
    LET s == set(this, key, value, ttl, t)
    IN [this    |-> s.this,
        outcome |-> IF s.ret = "throw" THEN "throw" ELSE "return",
        val     |-> value,
        stored  |-> s.ret = "true",
        gone    |-> s.countEvicted \cup s.memEvicted]

\* getOrSet dropping the key when fetchFunction fails
getOrSetFailDropKey(this, key, error) ==
    [this |-> delete(this, key), outcome |-> "throw", error |-> error]

\* getOrSet after its await, when fetchFunction rejected with error (lines
\* 226-229): the error is logged and thrown again.
getOrSetFail(this, key, error) ==
    [this |-> this, outcome |-> "throw", error |-> error]

----------------------------------------------------------------------------
(* The state machine *)

Idle == [pc |-> "idle", key |-> EmptyKey, ttl |-> 0, fetches |-> 0]

StatsOK(this) ==
    /\ this.stats.hits <= MaxHits
    /\ this.stats.misses <= MaxMisses
    /\ this.stats.evictions <= MaxEvictions
    /\ this.stats.sets <= MaxSets

\* Whether the ttl of a write made at time w.at has run out at time t.
Elapsed(w, t) == w.ttl > 0 /\ t > w.at + w.ttl

\* written after a set of key that returned true and evicted the keys `gone`
\* on its way.
Wrote(w, key, value, ttl, t, gone) ==
    [k \in ((DOMAIN w) \ gone) \cup {key} |->
        IF k = key THEN [value |-> value, at |-> t, ttl |-> ttl] ELSE w[k]]

Unwrote(w, keys) == [k \in (DOMAIN w) \ keys |-> w[k]]

\* The scenario of the spec: on a cache with maxSize = 2, set a, set b, a get
\* that reads b, set c, each set storing a number that does not expire.
NumberSet(key, value, ttl, ret) ==
    [op |-> "set", key |-> key,
     ok |-> ret = "true" /\ value.type = "number" /\ ttl = 0]

ScenNext(s, call) ==
    CASE s = "start" /\ call = [op |-> "set", key |-> "a", ok |-> TRUE] -> "a"
      [] s = "a"     /\ call = [op |-> "set", key |-> "b", ok |-> TRUE] -> "ab"
      [] s = "ab"    /\ call = [op |-> "get", key |-> "b", ok |-> TRUE] -> "abB"
      [] s = "abB"   /\ call = [op |-> "set", key |-> "c", ok |-> TRUE] -> "done"
      [] OTHER                                                          -> "off"

OtherCall == [op |-> "other", key |-> EmptyKey, ok |-> TRUE]

NoRecent == [key |-> EmptyKey, by |-> "none"]

\* recent once the cache is `this`: forgotten when its key is no longer stored.
StillRecent(r, this) == IF r.key \in DOMAIN this.storage THEN r ELSE NoRecent

\* A cache just constructed with this maxSize, at time 0.
CacheStart(maxSize) ==
    /\ cache = NewCache(maxSize, DefaultTTL, MemLimit)
    /\ now = 0
    /\ calls = [c \in Callers |-> Idle]
    /\ written = EmptyMap
    /\ recent = NoRecent
    /\ scen = "start"

CacheInit == \E m \in 1..MaxMaxSize : CacheStart(m)

\* A CircuitBreaker with a timer that ends the OPEN state by itself
onTimePassesReset(this, t) ==
    IF this.state = "OPEN" /\ t - this.lastFailureTime >= this.resetTimeout
    THEN [this EXCEPT !.state = "HALF_OPEN"]
    ELSE this

\* What a CircuitBreaker does when Date.now() reaches t with no method of it
\* called: nothing, for its constructor starts no timer.
onTimePasses(this, t) == this

\* Date.now() moves on; written forgets the writes whose ttl has run out.
Tick ==
    /\ now < MaxTime
    /\ now' = now + 1
    /\ written' = Unwrote(written, {k \in DOMAIN written : Elapsed(written[k], now + 1)})
    /\ breaker' = onTimePasses(breaker, now + 1)
    /\ UNCHANGED <<cache, calls, recent, scen, retryVars, execs, streak, tally,
                   janitorVars, probeVars>>

Set(key, value, ttl) ==
    LET r == set(cache, key, value, ttl, now)
    IN /\ StatsOK(r.this)
       /\ cache' = r.this
       /\ written' = IF r.ret = "true"
                     THEN Wrote(written, key, value, ttl, now,
                                r.countEvicted \cup r.memEvicted)
                     ELSE written
       /\ recent' = IF r.ret = "true" THEN [key |-> key, by |-> "set"] ELSE recent
       /\ scen' = ScenNext(scen, NumberSet(key, value, ttl, r.ret))
       /\ UNCHANGED <<now, calls, retryVars, breakerVars, janitorVars, probeVars>>

Get(key) ==
    LET r == get(cache, key, now)
    IN /\ StatsOK(r.this)
       /\ cache' = r.this
       /\ recent' = IF r.ret = "hit" THEN [key |-> key, by |-> "get"]
                    ELSE StillRecent(recent, r.this)
       /\ scen' = ScenNext(scen, [op |-> "get", key |-> key, ok |-> r.ret = "hit"])
       /\ UNCHANGED <<now, calls, written, retryVars, breakerVars, janitorVars, probeVars>>

Has(key) ==
    /\ cache' = has(cache, key, now).this
    /\ recent' = StillRecent(recent, cache')
    /\ scen' = ScenNext(scen, OtherCall)
    /\ UNCHANGED <<now, calls, written, retryVars, breakerVars, janitorVars, probeVars>>

Delete(key) ==
    /\ cache' = delete(cache, key)
    /\ recent' = StillRecent(recent, cache')
    /\ written' = Unwrote(written, {key})
    /\ scen' = ScenNext(scen, OtherCall)
    /\ UNCHANGED <<now, calls, retryVars, breakerVars, janitorVars, probeVars>>

Clear ==
    /\ cache' = clear(cache)
    /\ recent' = NoRecent
    /\ written' = EmptyMap
    /\ scen' = ScenNext(scen, OtherCall)
    /\ UNCHANGED <<now, calls, retryVars, breakerVars, janitorVars, probeVars>>

\* One tick of the janitor of startCacheCleanup on this cache.
Sweep ==
    /\ cache' = cleanupExpired(cache, now)
    /\ recent' = StillRecent(recent, cache')
    /\ scen' = ScenNext(scen, OtherCall)
    /\ UNCHANGED <<now, calls, written, retryVars, breakerVars, janitorVars, probeVars>>

\* A caller enters getOrSet with the default ttl: a cached value returns at
\* once, otherwise fetchFunction is invoked and the call waits for it.
GetOrSetCall(c, key) ==
    LET r == getOrSetBegin(cache, key, now)
    IN /\ calls[c].pc = "idle"
       /\ StatsOK(r.this)
       /\ cache' = r.this
       /\ calls' = IF r.outcome = "await"
                   THEN [calls EXCEPT ![c] =
                           [pc |-> "fetching", key |-> key,
                            ttl |-> cache.defaultTTL, fetches |-> r.fetches]]
                   ELSE calls
       /\ recent' = IF r.got = "hit" THEN [key |-> key, by |-> "get"]
                    ELSE StillRecent(recent, r.this)
       /\ scen' = ScenNext(scen, OtherCall)
       /\ UNCHANGED <<now, written, retryVars, breakerVars, janitorVars, probeVars>>

\* fetchFunction resolved with value: set it and return it.
GetOrSetResolve(c, value) ==
    LET r == getOrSetEnd(cache, calls[c].key, value, calls[c].ttl, now)
    IN /\ calls[c].pc = "fetching"
       /\ StatsOK(r.this)
       /\ cache' = r.this
       /\ calls' = [calls EXCEPT ![c] = Idle]
       /\ written' = IF r.stored
                     THEN Wrote(written, calls[c].key, value, calls[c].ttl, now, r.gone)
                     ELSE written
       /\ recent' = IF r.stored THEN [key |-> calls[c].key, by |-> "set"] ELSE recent
       /\ scen' = ScenNext(scen, OtherCall)
       /\ UNCHANGED <<now, retryVars, breakerVars, janitorVars, probeVars>>

\* fetchFunction rejected: the error is logged and thrown again.
GetOrSetReject(c, error) ==
    /\ calls[c].pc = "fetching"
    /\ cache' = getOrSetFail(cache, calls[c].key, error).this
    /\ calls' = [calls EXCEPT ![c] = Idle]
    /\ recent' = StillRecent(recent, cache')
    /\ written' = Unwrote(written, (DOMAIN written) \ (DOMAIN cache'.storage))
    /\ scen' = ScenNext(scen, OtherCall)
    /\ UNCHANGED <<now, retryVars, breakerVars, janitorVars, probeVars>>

\* The synchronous methods, called with keys of KeyInputs.
CacheNext ==
    \/ Tick
    \/ \E key \in KeyInputs, value \in Values, ttl \in TTLs : Set(key, value, ttl)
    \/ \E key \in KeyInputs : Get(key)
    \/ \E key \in KeyInputs : Has(key)
    \/ \E key \in KeyInputs : Delete(key)
    \/ Clear
    \/ Sweep

\* The keys the callers of getOrSet and their neighbours use.
FetchKeys == {"a", "b", EmptyKey}

\* The caller whose getOrSet calls SpecGetOrSet follows.
OneCaller == {1}

\* getOrSet calls of one caller, interleaved at their await with the
\* synchronous methods.
GetOrSetNext ==
    \/ Tick
    \/ \E key \in FetchKeys, value \in Values, ttl \in TTLs : Set(key, value, ttl)
    \/ \E key \in FetchKeys : Get(key)
    \/ \E key \in FetchKeys : Has(key)
    \/ \E key \in FetchKeys : Delete(key)
    \/ Clear
    \/ Sweep
    \/ \E c \in OneCaller, key \in FetchKeys : GetOrSetCall(c, key)
    \/ \E c \in OneCaller, value \in Values : GetOrSetResolve(c, value)
    \/ \E c \in OneCaller, error \in Errors : GetOrSetReject(c, error)

\* The key two callers of getOrSet ask for, and what their fetches resolve
\* with: a number, a string that fits and one that set refuses.
SharedKeys == {"a"}

FetchedValues == {Num(1), Str(5), Str(10)}

\* getOrSet calls of two callers for one key, overlapping at their await.
TwoCallersNext ==
    \/ Tick
    \/ Clear
    \/ \E c \in Callers, key \in SharedKeys : GetOrSetCall(c, key)
    \/ \E c \in Callers, value \in FetchedValues : GetOrSetResolve(c, value)
    \/ \E c \in Callers : GetOrSetReject(c, ErrTimeout)

----------------------------------------------------------------------------
(* retry *)

\* The maxAttempts option ranges over 1..MaxAttempts: attempts are numbered
\* from 1.
MaxAttempts == 3

\* DEFAULT_CONFIG.retryCondition without its test for status 429
DefaultRetryConditionNo429(error) ==
    \/ error.code = "ECONNREFUSED"
    \/ error.code = "ENOTFOUND"
    \/ error.code = "ETIMEDOUT"
    \/ error.code = "ECONNRESET"
    \/ (error.status # 0 /\ error.status >= 500)

\* DEFAULT_CONFIG.retryCondition
DefaultRetryCondition(error) ==
    \/ error.code = "ECONNREFUSED"
    \/ error.code = "ENOTFOUND"
    \/ error.code = "ETIMEDOUT"
    \/ error.code = "ECONNRESET"
    \/ (error.status # 0 /\ error.status >= 500)
    \/ (error.status # 0 /\ error.status = 429)

\* The retryCondition option: the default, or a caller's predicate that
\* answers the same for every error.
RetryConditions == {"default", "always", "never"}

\* The baseDelay option ranges over 1..MaxBaseDelay, in milliseconds.
MaxBaseDelay == 2

\* The maxDelay option ranges over 1..MaxDelayCap, in milliseconds.
MaxDelayCap == 3

\* The exponentialBase option ranges over 1..MaxExponentialBase.
MaxExponentialBase == 2

\* Math.random() is k / RandomSteps for a k of Randoms: 0, 1/4, 1/2, 3/4.
RandomSteps == 4

Randoms == 0..(RandomSteps - 1)

DEFAULT_CONFIG ==
    [maxAttempts     |-> 3,
     baseDelay       |-> 1000,
     maxDelay        |-> 30000,
     exponentialBase |-> 2,
     jitter          |-> TRUE,
     retryCondition  |-> "default",
     onRetry         |-> TRUE]

\* finalConfig: the defaults, and small values of every option; onRetry is
\* whether the option is a function (the default is one) or null.
Configs ==
    [maxAttempts     : 1..MaxAttempts,
     baseDelay       : 1..MaxBaseDelay,
     maxDelay        : 1..MaxDelayCap,
     exponentialBase : 1..MaxExponentialBase,
     jitter          : BOOLEAN,
     retryCondition  : RetryConditions,
     onRetry         : BOOLEAN] \cup {DEFAULT_CONFIG}

\* Math.pow(base, exponent) for a whole exponent >= 0
RECURSIVE Pow(_, _)
Pow(base, exponent) == IF exponent = 0 THEN 1 ELSE base * Pow(base, exponent - 1)

\* calculateDelay with a jitter of 30% for 10%
calculateDelayWideJitter(attempt, config, random) ==
    LET exponentialDelay == config.baseDelay * Pow(config.exponentialBase, attempt - 1)
        cappedDelay == Min(exponentialDelay, config.maxDelay)
        sum == Fraction(cappedDelay * (7 * RandomSteps + 6 * random), 10 * RandomSteps)
    IN IF config.jitter
       THEN IF sum.num < 0 THEN Fraction(0, 1) ELSE sum
       ELSE Fraction(cappedDelay, 1)

\* calculateDelay without Math.min
calculateDelayNoCap(attempt, config, random) ==
    LET exponentialDelay == config.baseDelay * Pow(config.exponentialBase, attempt - 1)
        sum == Fraction(exponentialDelay * (9 * RandomSteps + 2 * random), 10 * RandomSteps)
    IN IF config.jitter
       THEN IF sum.num < 0 THEN Fraction(0, 1) ELSE sum
       ELSE Fraction(exponentialDelay, 1)

\* calculateDelay(attempt, config), with Math.random() = random / RandomSteps.
\* jitterAmount is cappedDelay / 10 and jitter is
\* (random / RandomSteps - 1/2) * 2 * jitterAmount, so cappedDelay + jitter is
\* cappedDelay * (9 * RandomSteps + 2 * random) / (10 * RandomSteps).
calculateDelay(attempt, config, random) ==
    LET exponentialDelay == config.baseDelay * Pow(config.exponentialBase, attempt - 1)
        cappedDelay == Min(exponentialDelay, config.maxDelay)
        sum == Fraction(cappedDelay * (9 * RandomSteps + 2 * random), 10 * RandomSteps)
    IN IF config.jitter
       THEN IF sum.num < 0 THEN Fraction(0, 1) ELSE sum
       ELSE Fraction(cappedDelay, 1)

\* finalConfig.retryCondition(error)
retryCondition(config, error) ==
    CASE config.retryCondition = "always" -> TRUE
      [] config.retryCondition = "never"  -> FALSE
      [] OTHER                            -> DefaultRetryCondition(error)

\* An entry of the log of a run: fn invoked ("fn"), fn resolved ("ok") or
\* rejected ("fail"), onRetry called ("onRetry"), sleep called with a delay
\* ("sleep"), the timer of sleep fired ("wake").
Event(ev, attempt, what) == [ev |-> ev, attempt |-> attempt, what |-> what]

\* No call of retry in progress.
NoRun ==
    [pc        |-> "idle",
     config    |-> DEFAULT_CONFIG,
     attempt   |-> 0,
     lastError |-> NoError,
     log       |-> <<>>,
     result    |-> VNull,
     error     |-> NoError]

\* The head of the for loop (line 60) and, inside it, the call of fn (line
\* 62); after the loop, line 88.
retryLoop(r) ==
    IF r.attempt <= r.config.maxAttempts
    THEN [r EXCEPT !.pc = "fn", !.log = Append(@, Event("fn", r.attempt, NoError))]
    ELSE [r EXCEPT !.pc = "thrown", !.error = r.lastError]

\* retry(fn, config) up to its first await (lines 56-62)
retryBegin(config) ==
    retryLoop([NoRun EXCEPT !.config = config, !.attempt = 1])

\* fn resolved starting the next attempt instead of returning
retryResolveAgain(r, value) ==
    retryLoop([r EXCEPT !.result = value, !.attempt = @ + 1])

\* fn resolved (lines 62-63): return result.
retryResolve(r, value) ==
    [r EXCEPT !.pc = "returned", !.result = value]

\* The error thrown out of the catch block (lines 69 and 74).
retryThrow(r, error) ==
    [r EXCEPT !.pc = "thrown", !.error = error]

\* Lines 77-84 with the sleep before the call of onRetry
retryBackoffSleepFirst(r, error, random) ==
    LET slept == [r EXCEPT !.log = Append(@, Event("sleep", r.attempt,
                                     calculateDelay(r.attempt, r.config, random)))]
    IN [slept EXCEPT !.pc = "sleep",
                     !.log = IF r.config.onRetry
                             THEN Append(@, Event("onRetry", r.attempt, error))
                             ELSE @]

\* Lines 77-84: onRetry when there is one, then calculateDelay and the sleep.
retryBackoff(r, error, random) ==
    LET told == IF r.config.onRetry
                THEN [r EXCEPT !.log = Append(@, Event("onRetry", r.attempt, error))]
                ELSE r
    IN [told EXCEPT !.pc = "sleep",
                    !.log = Append(@, Event("sleep", r.attempt,
                                calculateDelay(r.attempt, r.config, random)))]

\* the catch block without its retryCondition test
retryRejectNoCondition(r, error, random) ==
    LET caught == [r EXCEPT !.lastError = error]
    IN IF r.attempt = r.config.maxAttempts THEN retryThrow(caught, error)
       ELSE retryBackoff(caught, error, random)

\* the catch block calling onRetry and sleeping before its last-attempt test
retryRejectLateCheck(r, error, random) ==
    LET caught == [r EXCEPT !.lastError = error]
    IN IF ~retryCondition(r.config, error) THEN retryThrow(caught, error)
       ELSE IF r.attempt = r.config.maxAttempts
       THEN retryThrow(retryBackoff(caught, error, random), error)
       ELSE retryBackoff(caught, error, random)

\* fn rejected: the catch block (lines 64-85)
retryReject(r, error, random) ==
    LET caught == [r EXCEPT !.lastError = error]
    IN IF ~retryCondition(r.config, error) THEN retryThrow(caught, error)
       ELSE IF r.attempt = r.config.maxAttempts THEN retryThrow(caught, error)
       ELSE retryBackoff(caught, error, random)

\* The sleep is over: attempt++ and the head of the loop again.
retryWake(r) ==
    retryLoop([r EXCEPT !.attempt = @ + 1])

\* The values fn resolves with.
Results == {VNull, Num(1)}

RetryInit == run = NoRun

RetryCall(config) ==
    /\ run.pc = "idle"
    /\ run' = retryBegin(config)
    /\ UNCHANGED <<cacheVars, breakerVars, janitorVars, probeVars>>

RetryFnResolve(value) ==
    /\ run.pc = "fn"
    /\ run' = retryResolve([run EXCEPT !.log = Append(@, Event("ok", run.attempt, value))],
                            value)
    /\ UNCHANGED <<cacheVars, breakerVars, janitorVars, probeVars>>

\* fn rejected with error; random is what Math.random() gives calculateDelay.
RetryFnReject(error, random) ==
    /\ run.pc = "fn"
    /\ run' = retryReject([run EXCEPT !.log = Append(@, Event("fail", run.attempt, error))],
                           error, random)
    /\ UNCHANGED <<cacheVars, breakerVars, janitorVars, probeVars>>

\* The timer of sleep fires.
RetryWake ==
    /\ run.pc = "sleep"
    /\ run' = retryWake([run EXCEPT !.log = Append(@, Event("wake", run.attempt, NoError))])
    /\ UNCHANGED <<cacheVars, breakerVars, janitorVars, probeVars>>

\* The caller has the outcome of the call; the next call may start.
RetrySettled ==
    /\ run.pc \in {"returned", "thrown"}
    /\ run' = NoRun
    /\ UNCHANGED <<cacheVars, breakerVars, janitorVars, probeVars>>

RetryNext ==
    \/ \E config \in Configs : RetryCall(config)
    \/ \E value \in Results : RetryFnResolve(value)
    \/ \E error \in Errors, random \in Randoms : RetryFnReject(error, random)
    \/ RetryWake
    \/ RetrySettled

----------------------------------------------------------------------------
(* The CircuitBreaker class *)

\* The failureThreshold option ranges over 1..MaxThreshold.
MaxThreshold == 2

\* The resetTimeout option ranges over 1..MaxResetTimeout.
MaxResetTimeout == 2

\* stats.totalRequests is followed up to this value.
MaxRequests == 4

\* The monitoringPeriod option, which no method reads.
MonitoringPeriod == 1

\* new Error('Circuit breaker is OPEN'): an error with neither code nor response.
CircuitOpen == [code |-> "", status |-> 0]

\* null as a number
TimeOf(x) == IF x = Null THEN 0 ELSE x

\* constructor
NewBreaker(failureThreshold, resetTimeout) ==
    [failureThreshold |-> failureThreshold,
     resetTimeout     |-> resetTimeout,
     monitoringPeriod |-> MonitoringPeriod,
     state            |-> "CLOSED",
     failureCount     |-> 0,
     lastFailureTime  |-> Null,
     successCount     |-> 0,
     requestCount     |-> 0,
     stats            |-> [totalRequests       |-> 0,
                           totalFailures       |-> 0,
                           totalTimeouts       |-> 0,
                           averageResponseTime |-> Fraction(0, 1),
                           lastError           |-> NoError]]

\* the threshold test with > for >=
shouldOpenLate(this) == this.failureCount > this.failureThreshold

shouldOpen(this) == this.failureCount >= this.failureThreshold

\* the reset test without its wait
shouldAttemptResetAtOnce(this, t) == this.state = "OPEN"

shouldAttemptReset(this, t) ==
    /\ this.state = "OPEN"
    /\ t - TimeOf(this.lastFailureTime) >= this.resetTimeout

\* (averageResponseTime * (totalRequests - 1) + responseTime) / totalRequests
runningAverage(avg, totalRequests, responseTime) ==
    Fraction(avg.num * (totalRequests - 1) + responseTime * avg.den,
             avg.den * totalRequests)

\* recordSuccess without its HALF_OPEN test: a success closes nothing
recordSuccessStaysHalfOpen(this, responseTime) ==
    LET counted == [this EXCEPT !.failureCount = 0,
                                !.successCount = @ + 1,
                                !.requestCount = @ + 1,
                                !.stats.totalRequests = @ + 1]
    IN [counted EXCEPT !.stats.averageResponseTime =
           runningAverage(@, counted.stats.totalRequests, responseTime)]

recordSuccess(this, responseTime) ==
    LET counted == [this EXCEPT !.failureCount = 0,
                                !.successCount = @ + 1,
                                !.requestCount = @ + 1,
                                !.stats.totalRequests = @ + 1]
        timed == [counted EXCEPT !.stats.averageResponseTime =
                     runningAverage(@, counted.stats.totalRequests, responseTime)]
    IN IF timed.state = "HALF_OPEN" THEN [timed EXCEPT !.state = "CLOSED"] ELSE timed

\* recordFailure counting every failure as a timeout
recordFailureAllTimeouts(this, error, t) ==
    LET counted == [this EXCEPT !.failureCount = @ + 1,
                                !.requestCount = @ + 1,
                                !.stats.totalRequests = @ + 1,
                                !.stats.totalFailures = @ + 1,
                                !.stats.totalTimeouts = @ + 1,
                                !.stats.lastError = error,
                                !.lastFailureTime = t]
    IN IF shouldOpen(counted) THEN [counted EXCEPT !.state = "OPEN"] ELSE counted

recordFailure(this, error, t) ==
    LET counted == [this EXCEPT !.failureCount = @ + 1,
                                !.requestCount = @ + 1,
                                !.stats.totalRequests = @ + 1,
                                !.stats.totalFailures = @ + 1,
                                !.stats.lastError = error,
                                !.lastFailureTime = t]
        timeouts == IF error.code = "ETIMEDOUT"
                    THEN [counted EXCEPT !.stats.totalTimeouts = @ + 1]
                    ELSE counted
    IN IF shouldOpen(timeouts) THEN [timeouts EXCEPT !.state = "OPEN"] ELSE timeouts

\* A call of execute that the gate let through: fn is invoked once.
executeAdmit(this, t) ==
    [this |-> this, outcome |-> "await", error |-> NoError, startTime |-> t,
     invoked |-> 1]

\* execute with the gate left out
executeBeginNoGate(this, t) == executeAdmit(this, t)

\* execute recording the call it turns away as a failure at t
executeBeginRejectCounts(this, t) ==
    IF this.state = "OPEN"
    THEN IF shouldAttemptReset(this, t)
         THEN executeAdmit([this EXCEPT !.state = "HALF_OPEN"], t)
         ELSE [this |-> [this EXCEPT !.lastFailureTime = t,
                                     !.stats.totalRequests = @ + 1,
                                     !.stats.totalFailures = @ + 1],
               outcome |-> "throw", error |-> CircuitOpen,
               startTime |-> t, invoked |-> 0]
    ELSE executeAdmit(this, t)

\* execute turning callers away while HALF_OPEN, as if a trial were under way
executeBeginOneTrial(this, t) ==
    IF this.state = "OPEN"
    THEN IF shouldAttemptReset(this, t)
         THEN executeAdmit([this EXCEPT !.state = "HALF_OPEN"], t)
         ELSE [this |-> this, outcome |-> "throw", error |-> CircuitOpen,
               startTime |-> t, invoked |-> 0]
    ELSE IF this.state = "HALF_OPEN"
    THEN [this |-> this, outcome |-> "throw", error |-> CircuitOpen,
          startTime |-> t, invoked |-> 0]
    ELSE executeAdmit(this, t)

\* execute up to its await (lines 188-201): the gate, startTime, the call of fn.
executeBegin(this, t) ==
    IF this.state = "OPEN"
    THEN IF shouldAttemptReset(this, t)
         THEN executeAdmit([this EXCEPT !.state = "HALF_OPEN"], t)
         ELSE [this |-> this, outcome |-> "throw", error |-> CircuitOpen,
               startTime |-> t, invoked |-> 0]
    ELSE executeAdmit(this, t)

\* execute after its await, fn resolved (lines 202-204)
executeResolve(this, startTime, t) ==
    [this |-> recordSuccess(this, t - startTime), outcome |-> "return"]

\* execute after its await, fn rejected (lines 205-208)
executeReject(this, error, t) ==
    [this |-> recordFailure(this, error, t), outcome |-> "throw", error |-> error]

\* No execute call of this caller in progress.
NoExec == [pc |-> "idle", startTime |-> 0, admitted |-> "CLOSED", invoked |-> 0]

Running == {c \in Callers : execs[c].pc = "running"}

\* Nothing the wrapped operation did yet.
NoTally == [ended |-> 0, failed |-> 0, timedOut |-> 0, lastError |-> NoError,
            resolved |-> 0, sumTimes |-> 0]

\* fn resolved, responseTime after execute took its startTime
TallyResolve(t, responseTime) ==
    [t EXCEPT !.ended = @ + 1, !.resolved = @ + 1, !.sumTimes = @ + responseTime]

\* fn rejected with error
TallyReject(t, error) ==
    [t EXCEPT !.ended = @ + 1, !.failed = @ + 1, !.lastError = error,
              !.timedOut = IF error.code = "ETIMEDOUT" THEN @ + 1 ELSE @]

\* A breaker just constructed with these options.
BreakerStart(failureThreshold, resetTimeout) ==
    /\ breaker = NewBreaker(failureThreshold, resetTimeout)
    /\ execs = [c \in Callers |-> NoExec]
    /\ streak = 0
    /\ tally = NoTally

BreakerInit ==
    \E th \in 1..MaxThreshold, rt \in 1..MaxResetTimeout : BreakerStart(th, rt)

\* A caller enters execute: it is turned away, or fn is invoked and the call
\* waits for it; admitted is the state the gate left the breaker in.
Execute(c) ==
    LET r == executeBegin(breaker, now)
    IN /\ execs[c].pc = "idle"
       /\ r.outcome = "await" =>
             breaker.stats.totalRequests + Cardinality(Running) < MaxRequests
       /\ breaker' = r.this
       /\ execs' = IF r.outcome = "await"
                   THEN [execs EXCEPT ![c] =
                           [pc |-> "running", startTime |-> r.startTime,
                            admitted |-> r.this.state, invoked |-> r.invoked]]
                   ELSE execs
       /\ UNCHANGED <<cacheVars, retryVars, streak, tally, janitorVars, probeVars>>

\* fn resolved
ExecuteFnResolve(c) ==
    /\ execs[c].pc = "running"
    /\ breaker' = executeResolve(breaker, execs[c].startTime, now).this
    /\ execs' = [execs EXCEPT ![c] = NoExec]
    /\ streak' = 0
    /\ tally' = TallyResolve(tally, now - execs[c].startTime)
    /\ UNCHANGED <<cacheVars, retryVars, janitorVars, probeVars>>

\* fn rejected with error
ExecuteFnReject(c, error) ==
    /\ execs[c].pc = "running"
    /\ breaker' = executeReject(breaker, error, now).this
    /\ execs' = [execs EXCEPT ![c] = NoExec]
    /\ streak' = streak + 1
    /\ tally' = TallyReject(tally, error)
    /\ UNCHANGED <<cacheVars, retryVars, janitorVars, probeVars>>

\* The errors the wrapped operation fails with: a timeout and another one.
BreakerErrors == {ErrTimeout, ErrServer}

\* execute calls of the callers, overlapping at their await, as time passes.
BreakerNext ==
    \/ Tick
    \/ \E c \in Callers : Execute(c)
    \/ \E c \in Callers : ExecuteFnResolve(c)
    \/ \E c \in Callers, error \in BreakerErrors : ExecuteFnReject(c, error)

\* The wrapped operation recovers: it fails only up to the time MaxTime and
\* while one more call can still be followed; from then on it succeeds.
MayStillFail ==
    /\ now <= MaxTime
    /\ breaker.stats.totalRequests + Cardinality(Running) < MaxRequests

\* Date.now() moves on, past MaxTime by the longest resetTimeout.
RecoveryTick ==
    /\ now < MaxTime + MaxResetTimeout
    /\ now' = now + 1
    /\ breaker' = onTimePasses(breaker, now + 1)
    /\ UNCHANGED <<cache, calls, written, recent, scen, retryVars, execs, streak, tally,
                   janitorVars, probeVars>>

\* fn rejected with error, while the wrapped operation still fails
RecoveryFnReject(c, error) ==
    /\ MayStillFail
    /\ ExecuteFnReject(c, error)

\* execute calls on a wrapped operation that recovers.
RecoveryNext ==
    \/ RecoveryTick
    \/ \E c \in Callers : Execute(c)
    \/ \E c \in Callers : ExecuteFnResolve(c)
    \/ \E c \in Callers, error \in BreakerErrors : RecoveryFnReject(c, error)

----------------------------------------------------------------------------
(* startCacheCleanup and the three caches of the module *)

\* The caches that cleanup sweeps.
ManagedNames == {"apiCache", "repoCache", "analysisCache"}

\* The interval argument of startCacheCleanup, in ticks of the clock.
JanitorInterval == 1

\* Each managed cache is followed for this many calls of set.
ManagedSets == 2

\* The key and the value stored in the managed caches.
ManagedKeys == {"a"}

ManagedValues == {Num(1)}

\* The sweep of apiCache alone
cleanupApiOnly(m, t) ==
    [m EXCEPT !["apiCache"] = cleanupExpired(@, t)]

\* cleanup: cleanupExpired on each of the three caches
cleanup(m, t) == [name \in ManagedNames |-> cleanupExpired(m[name], t)]

\* No janitor started: the three caches as constructed, no timer.
JanitorOff ==
    /\ managed = [name \in ManagedNames |-> NewCache(MaxMaxSize, DefaultTTL, MemLimit)]
    /\ janitor = [running |-> FALSE, due |-> Null]

\* Some part of the program stores into a managed cache.
ManagedSet(name, key, value, ttl) ==
    LET r == set(managed[name], key, value, ttl, now)
    IN /\ managed[name].stats.sets < ManagedSets
       /\ managed' = [managed EXCEPT ![name] = r.this]
       /\ UNCHANGED <<janitor, cacheVars, retryVars, breakerVars, probeVars>>

\* startCacheCleanup(interval): one cleanup at once, then setInterval.
JanitorStart ==
    /\ ~janitor.running
    /\ managed' = cleanup(managed, now)
    /\ janitor' = [running |-> TRUE, due |-> now + JanitorInterval]
    /\ UNCHANGED <<cacheVars, retryVars, breakerVars, probeVars>>

\* The interval timer fires, at its due time or later: cleanup runs.
JanitorTick ==
    /\ janitor.running
    /\ now >= janitor.due
    /\ managed' = cleanup(managed, now)
    /\ janitor' = [janitor EXCEPT !.due = now + JanitorInterval]
    /\ UNCHANGED <<cacheVars, retryVars, breakerVars, probeVars>>

\* The function startCacheCleanup returned is called: clearInterval.
JanitorStop ==
    /\ janitor.running
    /\ janitor' = [running |-> FALSE, due |-> Null]
    /\ UNCHANGED <<managed, cacheVars, retryVars, breakerVars, probeVars>>

\* Stores into the managed caches and the janitor, as time passes.
JanitorNext ==
    \/ Tick
    \/ \E name \in ManagedNames, key \in ManagedKeys, value \in ManagedValues,
          ttl \in TTLs : ManagedSet(name, key, value, ttl)
    \/ JanitorStart
    \/ JanitorTick
    \/ JanitorStop

----------------------------------------------------------------------------
(* Pure functions under study *)

\* No function under study.
NoProbe == probe = [fn |-> "none"]

\* The attempt numbers, the delay options and the Math.random() outcomes
\* calculateDelay is computed for: small values, 0 included, and the defaults.
DelayOptions ==
    [baseDelay       : 0..MaxBaseDelay,
     maxDelay        : 0..MaxDelayCap,
     exponentialBase : 1..(MaxExponentialBase + 1),
     jitter          : BOOLEAN]
    \cup {[baseDelay |-> DEFAULT_CONFIG.baseDelay, maxDelay |-> DEFAULT_CONFIG.maxDelay,
            exponentialBase |-> DEFAULT_CONFIG.exponentialBase, jitter |-> j] :
                j \in BOOLEAN}

\* calculateDelay is about to be called with one of these inputs.
DelayProbe ==
    \E attempt \in 1..MaxAttempts, config \in DelayOptions, random \in Randoms :
        probe = [fn |-> "calculateDelay", attempt |-> attempt, config |-> config,
                 random |-> random, done |-> FALSE, output |-> Fraction(0, 1)]

\* calculateDelay returns.
ComputeDelay ==
    /\ probe.fn = "calculateDelay"
    /\ ~probe.done
    /\ probe' = [probe EXCEPT !.done = TRUE,
                              !.output = calculateDelay(probe.attempt, probe.config,
                                                        probe.random)]
    /\ UNCHANGED <<cacheVars, retryVars, breakerVars, janitorVars>>

\* error.code: the four codes the default retryCondition names, another
\* code, and "" for an error without code.
Codes == {"ECONNREFUSED", "ENOTFOUND", "ETIMEDOUT", "ECONNRESET", "EPIPE", ""}

\* error.response.status: HTTP statuses at and around the limits the default
\* retryCondition tests, and 0 for an error without response.
Statuses == {0, 200, 400, 404, 428, 429, 430, 499, 500, 503, 599}

\* The default retryCondition is about to be called with one of these errors.
ClassifyProbe ==
    \E code \in Codes, status \in Statuses :
        probe = [fn |-> "retryCondition", error |-> [code |-> code, status |-> status],
                 done |-> FALSE, output |-> FALSE]

\* The default retryCondition returns.
Classify ==
    /\ probe.fn = "retryCondition"
    /\ ~probe.done
    /\ probe' = [probe EXCEPT !.done = TRUE,
                              !.output = DefaultRetryCondition(probe.error)]
    /\ UNCHANGED <<cacheVars, retryVars, breakerVars, janitorVars>>

\* The maxSize options set is stepped through with: those of the cache under
\* study, one more, and two for which Math.ceil(maxSize * 0.1) is 1 and 2.
LoopMaxSizes == (1..(MaxMaxSize + 1)) \cup {10, 11}

\* What an earlier set may have left under a key: nothing, or a value that
\* fits with its ttl.
Absent == [stored |-> FALSE, value |-> VNull, ttl |-> 0]

Fills ==
    {Absent} \cup [stored : {TRUE}, value : {VNull, Num(1)}, ttl : TTLs]
            \cup [stored : {TRUE}, value : {Str(5)}, ttl : {0}]

\* set(key, fill.value, fill.ttl) at time 0 on a cache with room for it: it
\* sweeps nothing, evicts nothing and inserts (lines 108-128).  A fill the
\* cache has no room for is left out.
fillOne(this, key, fill) ==
    LET size == getMemorySize(fill.value)
    IN IF /\ fill.stored
          /\ MapSize(this.storage) < this.maxSize
          /\ this.memoryUsage + size <= this.maxMemorySize
       THEN insertEntry(this, key, fill.value, fill.ttl, size, 0)
       ELSE this

\* What set is stepped through with: each value under a key, and the empty key.
LoopCalls ==
    [key : {"a"}, value : Values] \cup {[key |-> EmptyKey, value |-> Num(1)]}

\* set(key, value, 0) is about to be called at time t on a cache that earlier
\* sets filled.
SetProbe ==
    \E maxSize \in LoopMaxSizes, fa \in Fills, fb \in Fills,
       fc \in {Absent, [stored |-> TRUE, value |-> Num(1), ttl |-> 0]},
       call \in LoopCalls, t \in {0, MaxTime} :
        LET start == fillOne(fillOne(fillOne(NewCache(maxSize, DefaultTTL, MemLimit),
                                             "a", fa), "b", fb), "c", fc)
        IN probe = [fn |-> "set", start |-> start, this |-> start, key |-> call.key,
                    value |-> call.value, ttl |-> 0, t |-> t, pc |-> "call",
                    before |-> 0, rounds |-> 0, ret |-> "none"]

\* The condition of the while loop (line 103).
loopCondition(this, size) ==
    this.memoryUsage + size > this.maxMemorySize /\ MapSize(this.storage) > 0

\* set up to its memory test (lines 82-101): the two guards, the sweep, the
\* entry-count check, and the if around the loop.
SetEnter ==
    LET size == getMemorySize(probe.value)
        kept == evictIfAtCapacity(cleanupExpired(probe.this, probe.t))
    IN /\ probe.fn = "set"
       /\ probe.pc = "call"
       /\ probe' = IF probe.key = EmptyKey
                   THEN [probe EXCEPT !.pc = "done", !.ret = "throw"]
                   ELSE IF size > probe.this.maxMemorySize
                   THEN [probe EXCEPT !.pc = "done", !.ret = "false"]
                   ELSE [probe EXCEPT
                            !.this = kept,
                            !.before = MapSize(kept.storage),
                            !.pc = IF kept.memoryUsage + size > kept.maxMemorySize
                                   THEN "loop" ELSE "insert"]
       /\ UNCHANGED <<cacheVars, retryVars, breakerVars, janitorVars>>

\* One round of the while loop (lines 103-105): the condition holds and
\* evictLRU runs.
SetEvictRound ==
    /\ probe.fn = "set"
    /\ probe.pc = "loop"
    /\ loopCondition(probe.this, getMemorySize(probe.value))
    /\ probe' = [probe EXCEPT !.this = evictLRU(probe.this), !.rounds = @ + 1]
    /\ UNCHANGED <<cacheVars, retryVars, breakerVars, janitorVars>>

\* The while loop ends: its condition does not hold.
SetLoopExit ==
    /\ probe.fn = "set"
    /\ probe.pc = "loop"
    /\ ~loopCondition(probe.this, getMemorySize(probe.value))
    /\ probe' = [probe EXCEPT !.pc = "insert"]
    /\ UNCHANGED <<cacheVars, retryVars, breakerVars, janitorVars>>

\* set after its loop (lines 108-128): the entry is stored and true returned.
SetInsert ==
    /\ probe.fn = "set"
    /\ probe.pc = "insert"
    /\ probe' = [probe EXCEPT
                    !.this = insertEntry(probe.this, probe.key, probe.value, probe.ttl,
                                         getMemorySize(probe.value), probe.t),
                    !.pc = "done", !.ret = "true"]
    /\ UNCHANGED <<cacheVars, retryVars, breakerVars, janitorVars>>

SetLoopNext == SetEnter \/ SetEvictRound \/ SetLoopExit \/ SetInsert

----------------------------------------------------------------------------
(* Specifications: each follows one part of the program and leaves the      *)
(* others as constructed.                                                   *)

\* The cache, with no retry and no breaker in use.
CacheOnlyInit == CacheInit /\ RetryInit /\ BreakerStart(1, 1) /\ JanitorOff /\ NoProbe

SpecCache == CacheOnlyInit /\ [][CacheNext]_vars

SpecGetOrSet == CacheOnlyInit /\ [][GetOrSetNext]_vars

SpecTwoCallers == CacheOnlyInit /\ [][TwoCallersNext]_vars

\* retry, beside an unused cache and breaker.
RetryOnlyInit == CacheStart(1) /\ RetryInit /\ BreakerStart(1, 1) /\ JanitorOff /\ NoProbe

SpecRetry == RetryOnlyInit /\ [][RetryNext]_vars

\* A breaker, beside an unused cache and no retry.
BreakerOnlyInit == CacheStart(1) /\ RetryInit /\ BreakerInit /\ JanitorOff /\ NoProbe

SpecBreaker == BreakerOnlyInit /\ [][BreakerNext]_vars

\* A breaker around an operation that recovers.
SpecRecovery == BreakerOnlyInit /\ [][RecoveryNext]_vars

\* Time passes, execute keeps being called, and every call of the wrapped
\* operation comes to its end.
FairRecovery ==
    /\ SpecRecovery
    /\ WF_vars(RecoveryTick)
    /\ WF_vars(\E c \in Callers : Execute(c))
    /\ WF_vars(\E c \in Callers : ExecuteFnResolve(c))

\* The janitor and the managed caches, beside an unused cache, retry and breaker.
JanitorOnlyInit == CacheStart(1) /\ RetryInit /\ BreakerStart(1, 1) /\ JanitorOff /\ NoProbe

SpecJanitor == JanitorOnlyInit /\ [][JanitorNext]_vars

\* calculateDelay on each of its inputs, beside an unused cache, retry and breaker.
DelayOnlyInit == CacheStart(1) /\ RetryInit /\ BreakerStart(1, 1) /\ JanitorOff /\ DelayProbe

SpecDelay == DelayOnlyInit /\ [][ComputeDelay]_vars

\* The default retryCondition on each error.
ClassifyOnlyInit == CacheStart(1) /\ RetryInit /\ BreakerStart(1, 1) /\ JanitorOff /\ ClassifyProbe

SpecClassify == ClassifyOnlyInit /\ [][Classify]_vars

\* One call of set, a step at a time, on each cache earlier sets can have filled.
SetLoopInit == CacheStart(1) /\ RetryInit /\ BreakerStart(1, 1) /\ JanitorOff /\ SetProbe

SpecSetLoop == SetLoopInit /\ [][SetLoopNext]_vars

\* set is synchronous: once called it runs on, nothing interleaves with it.
FairSetLoop == SpecSetLoop /\ WF_vars(SetLoopNext)

\* setInterval calls cleanup again and again while the timer is not cleared.
FairJanitor == SpecJanitor /\ WF_vars(JanitorTick)

----------------------------------------------------------------------------
(* Properties of the Cache *)

RECURSIVE SumSizes(_, _)
SumSizes(storage, keys) ==
    IF keys = {} THEN 0
    ELSE LET k == CHOOSE x \in keys : TRUE
         IN storage[k].size + SumSizes(storage, keys \ {k})

AnExpiredEntry == \E k \in DOMAIN cache.storage : isExpired(cache.storage[k], now)

\* The last-access time accessOrder holds for key.
AccessTime(this, key) ==
    LET i == CHOOSE j \in 1..Len(this.accessOrder) : this.accessOrder[j].key = key
    IN this.accessOrder[i].t

\* C1: memoryUsage is the sum of entry.size over the entries in storage, in
\* every state the methods, getOrSet and the sweeps reach.
C1_MemoryAccounting ==
    cache.memoryUsage = SumSizes(cache.storage, DOMAIN cache.storage)

\* After three sets and an eviction two entries are stored, a null and a
\* string of 10 bytes.
C1_Witness ==
    /\ cache.stats.evictions >= 1
    /\ cache.stats.sets = 3
    /\ MapSize(cache.storage) = 2
    /\ cache.memoryUsage = 10

\* C2: storage never holds more than maxSize entries.
C2_EntryCap == MapSize(cache.storage) <= cache.maxSize

\* A full cache that has evicted to stay within its cap.
C2_Witness ==
    /\ cache.maxSize = 2
    /\ MapSize(cache.storage) = cache.maxSize
    /\ cache.stats.evictions >= 1

\* C3: storage and accessOrder hold the same keys, accessOrder each once.
C3_SameKeys ==
    /\ DOMAIN cache.storage = OrderKeys(cache.accessOrder)
    /\ Len(cache.accessOrder) = MapSize(cache.storage)

\* After an eviction and a hit, two keys are in both maps.
C3_Witness ==
    /\ cache.stats.evictions >= 1
    /\ cache.stats.hits >= 1
    /\ MapSize(cache.storage) = 2
    /\ Len(cache.accessOrder) = 2

\* C4: a key whose latest set returned true, and that has since been neither
\* deleted, cleared, evicted nor overwritten, is read back by get with the
\* value of that set as long as its ttl has not run out.
C4_ReadYourWrite ==
    \A k \in DOMAIN written :
        ~Elapsed(written[k], now) =>
            /\ get(cache, k, now).ret = "hit"
            /\ get(cache, k, now).val = written[k].value

\* A key set to a string that expires, after an earlier set, and read by get,
\* at the last instant of its ttl.
C4_Witness ==
    \E k \in DOMAIN written :
        /\ written[k] = [value |-> Str(5), at |-> 1, ttl |-> 1]
        /\ now = 2
        /\ cache.stats.sets >= 2
        /\ k \in DOMAIN cache.storage
        /\ cache.storage[k].accessCount >= 1

\* What get does to an expired entry: null, a miss and no hit, and the entry
\* gone from storage and accessOrder.
GetReportsExpiry(k) ==
    LET r == get(cache, k, now)
    IN /\ r.ret = "miss"
       /\ r.val = VNull
       /\ r.this.stats.misses = cache.stats.misses + 1
       /\ r.this.stats.hits = cache.stats.hits
       /\ k \notin DOMAIN r.this.storage
       /\ ~OrderHas(r.this.accessOrder, k)

\* The ttl an entry was stored with, when it was > 0.
EntryTTL(entry) == entry.expiresAt - entry.createdAt

\* C5 as claimed: once ttl has elapsed past createdAt, get reports absence.
C5_ExpiryOnceElapsed ==
    \A k \in DOMAIN cache.storage :
        LET e == cache.storage[k]
        IN (e.expiresAt # Null /\ now - e.createdAt >= EntryTTL(e))
              => GetReportsExpiry(k)

\* C5 as the code has it: once more than ttl has elapsed, that is once
\* Date.now() is past expiresAt, get reports absence, counts a miss and removes
\* the entry; at expiresAt itself the entry is still a hit.
C5_ExpiryOncePast ==
    \A k \in DOMAIN cache.storage :
        LET e == cache.storage[k]
        IN /\ (e.expiresAt # Null /\ now - e.createdAt > EntryTTL(e))
                => GetReportsExpiry(k)
           /\ (e.expiresAt # Null /\ now - e.createdAt = EntryTTL(e))
                => get(cache, k, now).ret = "hit"

\* An entry past its expiresAt is still in storage and accessOrder, after a
\* hit has been counted.
C5_Witness ==
    \E k \in DOMAIN cache.storage :
        /\ cache.storage[k].expiresAt # Null
        /\ now > cache.storage[k].expiresAt
        /\ OrderHas(cache.accessOrder, k)
        /\ cache.stats.hits >= 1
        /\ cache.stats.misses = 0

\* The keys a set(key, value, ttl) evicts because storage.size >= maxSize are
\* the least recently accessed of the entries left by the expiry sweep.
EvictsOldest(key, value, ttl) ==
    LET swept == cleanupExpired(cache, now)
        out == set(cache, key, value, ttl, now).countEvicted
    IN \A e \in out : \A s \in (DOMAIN swept.storage) \ out :
           AccessTime(swept, e) <= AccessTime(swept, s)

\* C6 as claimed: the count-triggered eviction of a set removes the least
\* recently accessed entries and never the most recently accessed one.
C6_EvictsLRUNeverMRU ==
    \A key \in Keys, value \in Values, ttl \in TTLs :
        /\ EvictsOldest(key, value, ttl)
        /\ recent.key \notin set(cache, key, value, ttl, now).countEvicted

\* C6 as the code has it: never the most recently accessed one when
\* maxSize >= 2; with maxSize = 1 the one stored entry is evicted.
C6_EvictsLRU ==
    \A key \in Keys, value \in Values, ttl \in TTLs :
        /\ EvictsOldest(key, value, ttl)
        /\ cache.maxSize >= 2 =>
              recent.key \notin set(cache, key, value, ttl, now).countEvicted
        /\ (cache.maxSize = 1 /\ set(cache, key, value, ttl, now).ret = "true") =>
              set(cache, key, value, ttl, now).countEvicted
                  = DOMAIN cleanupExpired(cache, now).storage

\* A full cache of two entries accessed at different times, the older one
\* accessed last by get, where a set of a third key evicts.
C6_Witness ==
    /\ cache.maxSize = 2
    /\ MapSize(cache.storage) = 2
    /\ recent.by = "get"
    /\ \E k \in DOMAIN cache.storage :
          /\ k # recent.key
          /\ AccessTime(cache, k) < AccessTime(cache, recent.key)
          /\ cache.storage[k].createdAt > cache.storage[recent.key].createdAt
          /\ \E key \in Keys \ DOMAIN cache.storage :
                set(cache, key, Num(1), 0, now).countEvicted = {k}

\* C7: after set a, set b, get b, set c on a cache with maxSize = 2 the store
\* holds exactly b and c; and a key read by get after every other key's last
\* access is not evicted by the next set while another key is stored: not by
\* the count-triggered eviction, and by the memory-triggered one only once
\* every other key is evicted.
C7_GetKeepsKey ==
    /\ (scen = "done" /\ cache.maxSize = 2) => DOMAIN cache.storage = {"b", "c"}
    /\ \A key \in Keys, value \in Values, ttl \in TTLs :
          LET swept == cleanupExpired(cache, now)
              r == set(cache, key, value, ttl, now)
          IN (recent.by = "get" /\ recent.key \in DOMAIN swept.storage
                 /\ MapSize(swept.storage) >= 2)
                => /\ recent.key \notin r.countEvicted
                   /\ recent.key \in r.memEvicted =>
                         r.countEvicted \cup r.memEvicted = DOMAIN swept.storage

\* The scenario has run to its end on a cache with maxSize = 2.
C7_Witness ==
    /\ scen = "done"
    /\ cache.maxSize = 2
    /\ cache.stats.evictions = 1
    /\ cache.stats.hits = 1

\* C8: a set whose value is larger than maxMemorySize returns false and leaves
\* the cache as it was.
C8_CapacityRejection ==
    \A key \in Keys, value \in Values, ttl \in TTLs :
        getMemorySize(value) > cache.maxMemorySize =>
            /\ set(cache, key, value, ttl, now).ret = "false"
            /\ set(cache, key, value, ttl, now).this = cache

\* A cache holding an expired entry and an entry under the key of a set that
\* is refused for its size.
C8_Witness ==
    /\ AnExpiredEntry
    /\ \E key \in DOMAIN cache.storage :
          /\ ~isExpired(cache.storage[key], now)
          /\ set(cache, key, Str(10), 0, now).ret = "false"

\* C9: a set with an empty key throws and leaves the cache as it was.
C9_EmptyKeyRejected ==
    \A value \in Values, ttl \in TTLs :
        /\ set(cache, EmptyKey, value, ttl, now).ret = "throw"
        /\ set(cache, EmptyKey, value, ttl, now).this = cache

\* A full cache holding an expired entry, where a set with a key would sweep
\* and count, and the set with the empty key throws.
C9_Witness ==
    /\ AnExpiredEntry
    /\ MapSize(cache.storage) = cache.maxSize
    /\ cache.stats.sets >= 2
    /\ set(cache, EmptyKey, Num(1), 0, now).ret = "throw"

\* The entry get would find under key: stored and not expired.
Cached(key) ==
    key \in DOMAIN cache.storage /\ ~isExpired(cache.storage[key], now)

\* C10 as claimed: a key holding an unexpired value has it returned without a
\* fetch; otherwise fetch is invoked once, its result stored and returned.
C10_CachedOrFetchedAndStored ==
    /\ \A key \in FetchKeys :
          LET b == getOrSetBegin(cache, key, now)
          IN IF Cached(key)
             THEN b.outcome = "return" /\ b.val = cache.storage[key].value
                  /\ b.fetches = 0
             ELSE b.outcome = "await" /\ b.fetches = 1
    /\ \A c \in Callers : calls[c].pc = "fetching" =>
          /\ calls[c].fetches = 1
          /\ \A value \in Values :
                LET e == getOrSetEnd(cache, calls[c].key, value, calls[c].ttl, now)
                IN /\ e.outcome = "return" /\ e.val = value
                   /\ calls[c].key \in DOMAIN e.this.storage
                   /\ e.this.storage[calls[c].key].value = value

\* C10 as the code has it: a key holding an unexpired value other than null has
\* it returned without a fetch; otherwise (no entry, an expired one, or a stored
\* null) fetch is invoked once; its result is returned when the key is not
\* empty, and stored under the key exactly when its size is within
\* maxMemorySize.
C10_CachedOrFetched ==
    /\ \A key \in FetchKeys :
          LET b == getOrSetBegin(cache, key, now)
          IN IF Cached(key) /\ cache.storage[key].value # VNull
             THEN b.outcome = "return" /\ b.val = cache.storage[key].value
                  /\ b.fetches = 0
             ELSE b.outcome = "await" /\ b.fetches = 1
    /\ \A c \in Callers : calls[c].pc = "fetching" =>
          /\ calls[c].fetches = 1
          /\ \A value \in Values :
                LET e == getOrSetEnd(cache, calls[c].key, value, calls[c].ttl, now)
                    fits == getMemorySize(value) <= cache.maxMemorySize
                IN IF calls[c].key = EmptyKey
                   THEN e.outcome = "throw" /\ e.this = cache
                   ELSE /\ e.outcome = "return" /\ e.val = value
                        /\ e.stored = fits
                        /\ fits => /\ calls[c].key \in DOMAIN e.this.storage
                                   /\ e.this.storage[calls[c].key].value = value
                        /\ ~fits => e.this = cache

\* A getOrSet call waits for its fetch although its key holds an unexpired
\* null, in a cache that also served a cached value.
C10_Witness ==
    \E c \in Callers :
        /\ calls[c].pc = "fetching"
        /\ Cached(calls[c].key)
        /\ cache.storage[calls[c].key].value = VNull
        /\ cache.stats.hits >= 1

\* A getOrSet(key) call whose fetchFunction fails with error, run from the
\* present state with nothing in between: the cache and outcome at its end.
FailedGetOrSet(key, error) ==
    getOrSetFail(getOrSetBegin(cache, key, now).this, key, error)

\* C11 as claimed: when fetch fails, the same error reaches the caller and the
\* call leaves storage, accessOrder and memoryUsage as they were, so a later
\* get(key) reports absence.
C11_FailedFetchChangesNothing ==
    \A key \in FetchKeys, error \in Errors :
        getOrSetBegin(cache, key, now).outcome = "await" =>
            LET f == FailedGetOrSet(key, error)
            IN /\ f.outcome = "throw" /\ f.error = error
               /\ f.this.storage = cache.storage
               /\ f.this.accessOrder = cache.accessOrder
               /\ f.this.memoryUsage = cache.memoryUsage
               /\ get(f.this, key, now).val = VNull

\* C11 as the code has it: the same error reaches the caller and the failure
\* changes nothing in the cache, whatever happened during the fetch; the call
\* as a whole changes only what its initial get changes: an expired entry under
\* key is removed, a stored null under key has its access refreshed, every
\* other entry stays as it was; a get(key) right after reports absence.
C11_FailedFetchCachesNothing ==
    /\ \A key \in FetchKeys, error \in Errors :
          getOrSetBegin(cache, key, now).outcome = "await" =>
              LET f == FailedGetOrSet(key, error)
                  expired == key \in DOMAIN cache.storage
                                /\ isExpired(cache.storage[key], now)
              IN /\ f.outcome = "throw" /\ f.error = error
                 /\ f.this = get(cache, key, now).this
                 /\ DOMAIN f.this.storage =
                       (DOMAIN cache.storage) \ (IF expired THEN {key} ELSE {})
                 /\ \A k \in (DOMAIN f.this.storage) \ {key} :
                       f.this.storage[k] = cache.storage[k]
                 /\ key \in DOMAIN f.this.storage =>
                       f.this.storage[key].value = VNull
                 /\ get(f.this, key, now).val = VNull
    /\ \A c \in Callers, error \in Errors : calls[c].pc = "fetching" =>
          LET f == getOrSetFail(cache, calls[c].key, error)
          IN f.outcome = "throw" /\ f.error = error /\ f.this = cache

\* A getOrSet call waits for its fetch, which may fail, while its key holds an
\* entry that another call stored during the fetch, beside an expired entry.
C11_Witness ==
    \E c \in Callers :
        /\ calls[c].pc = "fetching"
        /\ Cached(calls[c].key)
        /\ cache.storage[calls[c].key].value # VNull
        /\ AnExpiredEntry
        /\ cache.stats.misses >= 1

\* The hits and misses counters after a call are those before it plus these.
Counted(after, hits, misses) ==
    /\ after.stats.hits = cache.stats.hits + hits
    /\ after.stats.misses = cache.stats.misses + misses

\* getStats().hitRate is hits / (hits + misses), and 0 when that sum is 0.
HitRateIsHitsPerRead ==
    LET h == cache.stats.hits
        m == cache.stats.misses
    IN /\ h + m = 0 => getStats(cache).hitRate = [num |-> 0, den |-> 1]
       /\ h + m > 0 => /\ getStats(cache).hitRate.num * (h + m)
                             = h * getStats(cache).hitRate.den
                       /\ getStats(cache).hitRate.den > 0

\* C20 as claimed: hitRate is hits / (hits + misses) or 0, every get that
\* returns a stored value adds one to hits and every get that reports absence
\* adds one to misses.
C20_HitRateCountsEveryGet ==
    /\ HitRateIsHitsPerRead
    /\ \A key \in KeyInputs :
          LET g == get(cache, key, now)
          IN IF g.ret = "hit" THEN Counted(g.this, 1, 0) ELSE Counted(g.this, 0, 1)

\* C20 as the code has it: hitRate is hits / (hits + misses) or 0; a get with
\* a key adds one to hits when it returns a stored value and one to misses
\* when it reports absence; a get with the empty key reports absence and is
\* not counted; clear sets both counters to 0; set, has, delete and the sweep
\* leave them alone.
C20_HitRateCountsKeyedGets ==
    /\ HitRateIsHitsPerRead
    /\ \A key \in Keys :
          LET g == get(cache, key, now)
          IN IF g.ret = "hit"
             THEN Counted(g.this, 1, 0) /\ g.val = cache.storage[key].value
             ELSE Counted(g.this, 0, 1) /\ g.val = VNull
    /\ LET g == get(cache, EmptyKey, now)
       IN g.ret = "miss" /\ g.val = VNull /\ Counted(g.this, 0, 0)
    /\ clear(cache).stats.hits = 0 /\ clear(cache).stats.misses = 0
    /\ Counted(cleanupExpired(cache, now), 0, 0)
    /\ \A key \in KeyInputs :
          /\ Counted(has(cache, key, now).this, 0, 0)
          /\ Counted(delete(cache, key), 0, 0)
          /\ \A value \in Values, ttl \in TTLs :
                Counted(set(cache, key, value, ttl, now).this, 0, 0)

\* One get returned a stored value and one reported absence: the hit rate is
\* one half.
C20_Witness ==
    /\ cache.stats.hits = 1
    /\ cache.stats.misses = 1
    /\ getStats(cache).hitRate = [num |-> 1, den |-> 2]
    /\ MapSize(cache.storage) >= 1

----------------------------------------------------------------------------
(* Properties of retry *)

\* How many entries of the log are of this kind.
Count(log, ev) == Cardinality({i \in 1..Len(log) : log[i].ev = ev})

\* C12: fn is invoked at most maxAttempts times, and a success is the end of
\* the call: it is the last entry of the log (no invocation, onRetry or sleep
\* follows it), the call has returned, and what it returned is what that
\* attempt resolved with.
C12_AtMostMaxAttemptsFirstSuccess ==
    /\ Count(run.log, "fn") <= run.config.maxAttempts
    /\ \A i \in 1..Len(run.log) : run.log[i].ev = "ok" =>
          /\ i = Len(run.log)
          /\ run.pc = "returned"
          /\ run.result = run.log[i].what
          /\ Count(run.log, "fn") = run.log[i].attempt
    /\ run.pc = "returned" => run.log[Len(run.log)].ev = "ok"

\* A call that returned the result of its third attempt, after two failures
\* that were reported to onRetry.
C12_Witness ==
    /\ run.pc = "returned"
    /\ run.attempt = 3
    /\ run.result = Num(1)
    /\ Count(run.log, "fail") = 2
    /\ Count(run.log, "onRetry") = 2

\* C13: a failure the retry predicate answers false for is the end of the
\* call: it is the last entry of the log, and the call has thrown that error;
\* with the always-false predicate a call invokes fn once and never calls
\* onRetry or sleep.
C13_TerminalErrorPropagates ==
    /\ \A i \in 1..Len(run.log) :
          (run.log[i].ev = "fail" /\ ~retryCondition(run.config, run.log[i].what)) =>
              /\ i = Len(run.log)
              /\ run.pc = "thrown"
              /\ run.error = run.log[i].what
    /\ (run.config.retryCondition = "never" /\ run.pc # "idle") =>
          /\ Count(run.log, "fn") = 1
          /\ Count(run.log, "onRetry") = 0
          /\ Count(run.log, "sleep") = 0

\* A call with the default predicate and three attempts allowed that threw the
\* 404 of its second attempt.
C13_Witness ==
    /\ run.pc = "thrown"
    /\ run.config = DEFAULT_CONFIG
    /\ run.attempt = 2
    /\ run.error = ErrNotFound
    /\ Count(run.log, "fn") = 2

\* Every attempt so far failed with an error the predicate answers true for.
AllRetryable ==
    \A i \in 1..Len(run.log) :
        /\ run.log[i].ev # "ok"
        /\ run.log[i].ev = "fail" => retryCondition(run.config, run.log[i].what)

\* C14: once maxAttempts attempts have failed, each with a retryable error,
\* the call has thrown the error of the last attempt, and that failure is the
\* last entry of the log: onRetry and sleep were called after every attempt
\* but the last.
C14_ExhaustionThrowsLastError ==
    (Count(run.log, "fail") = run.config.maxAttempts /\ AllRetryable) =>
        /\ run.pc = "thrown"
        /\ run.log[Len(run.log)].ev = "fail"
        /\ run.error = run.log[Len(run.log)].what
        /\ Count(run.log, "sleep") = run.config.maxAttempts - 1
        /\ Count(run.log, "onRetry") =
              IF run.config.onRetry THEN run.config.maxAttempts - 1 ELSE 0

\* Three attempts failed, the first with a timeout and the last with a 503,
\* which the call threw.
C14_Witness ==
    /\ run.pc = "thrown"
    /\ run.config = DEFAULT_CONFIG
    /\ Count(run.log, "fail") = 3
    /\ run.log[2].what = ErrTimeout
    /\ run.error = ErrServer

----------------------------------------------------------------------------
(* Properties of the CircuitBreaker *)

\* The time since the last recorded failure.
SinceFailure == now - TimeOf(breaker.lastFailureTime)

\* The execute calls in progress that the gate admitted in HALF_OPEN.
Trials == {c \in Running : execs[c].admitted = "HALF_OPEN"}

\* C15: failureCount is the number of failures recorded since the last
\* success; the failure that brings it to failureThreshold leaves the state
\* OPEN, and a CLOSED breaker stays CLOSED through a success and through a
\* failure that leaves the count below failureThreshold, so a CLOSED breaker
\* has fewer than failureThreshold consecutive failures behind it.
C15_OpensAtThreshold ==
    /\ breaker.failureCount = streak
    /\ breaker.state = "CLOSED" => streak < breaker.failureThreshold
    /\ \A error \in BreakerErrors :
          LET after == recordFailure(breaker, error, now)
          IN /\ streak + 1 >= breaker.failureThreshold => after.state = "OPEN"
             /\ (breaker.state = "CLOSED" /\ streak + 1 < breaker.failureThreshold)
                   => after.state = "CLOSED"
    /\ breaker.state = "CLOSED" => recordSuccess(breaker, 0).state = "CLOSED"

\* A breaker with failureThreshold = 2 that a second consecutive failure has
\* just opened, after an earlier success.
C15_Witness ==
    /\ breaker.failureThreshold = 2
    /\ breaker.state = "OPEN"
    /\ streak = 2
    /\ breaker.successCount >= 1
    /\ breaker.lastFailureTime = now

\* C16: while the state is OPEN and less than resetTimeout has passed since
\* lastFailureTime, execute throws the circuit-open error, does not invoke fn
\* and leaves the breaker as it was.
C16_FailFast ==
    (breaker.state = "OPEN" /\ SinceFailure < breaker.resetTimeout) =>
        LET r == executeBegin(breaker, now)
        IN /\ r.outcome = "throw"
           /\ r.error = CircuitOpen
           /\ r.invoked = 0
           /\ r.this = breaker

\* An OPEN breaker some time after its last failure, but less than
\* resetTimeout.
C16_Witness ==
    /\ breaker.state = "OPEN"
    /\ SinceFailure > 0
    /\ SinceFailure < breaker.resetTimeout

\* C17: when the state is OPEN and at least resetTimeout has passed since
\* lastFailureTime, execute sets the state to HALF_OPEN and invokes fn once.
C17_HalfOpenProbe ==
    /\ (breaker.state = "OPEN" /\ SinceFailure >= breaker.resetTimeout) =>
          LET r == executeBegin(breaker, now)
          IN /\ r.outcome = "await"
             /\ r.invoked = 1
             /\ r.this = [breaker EXCEPT !.state = "HALF_OPEN"]
    /\ \A c \in Running : execs[c].invoked = 1

\* A trial is in progress that was admitted exactly resetTimeout = 2 after the
\* failure that opened the breaker.
C17_Witness ==
    \E c \in Trials :
        /\ breaker.state = "HALF_OPEN"
        /\ breaker.resetTimeout = 2
        /\ execs[c].startTime - breaker.lastFailureTime = 2
        /\ breaker.failureCount >= breaker.failureThreshold

\* C18: when a call admitted in HALF_OPEN succeeds, the breaker is CLOSED with
\* failureCount = 0 afterwards.
C18_TrialSuccessCloses ==
    \A c \in Trials :
        LET after == executeResolve(breaker, execs[c].startTime, now).this
        IN after.state = "CLOSED" /\ after.failureCount = 0

\* C19: when a call admitted in HALF_OPEN fails, the breaker is OPEN
\* afterwards.
C19_TrialFailureReopens ==
    \A c \in Trials, error \in BreakerErrors :
        executeReject(breaker, error, now).this.state = "OPEN"

----------------------------------------------------------------------------
(* Properties of has *)

\* C30: has(key) answers as get(key) would, true exactly when get would hit,
\* and removes an expired entry as get does; unlike get it leaves the hits
\* and misses counters alone, and when the entry is live it leaves the whole
\* cache, accessCount and access order included, as it was.
C30_HasPeeks ==
    \A key \in KeyInputs :
        LET h == has(cache, key, now)
            g == get(cache, key, now)
        IN /\ (h.ret = "true") <=> (g.ret = "hit")
           /\ DOMAIN h.this.storage = DOMAIN g.this.storage
           /\ h.this.stats = cache.stats
           /\ h.ret = "true" => h.this = cache
           /\ \A k \in DOMAIN h.this.storage : h.this.storage[k] = cache.storage[k]
           /\ (key \in DOMAIN cache.storage /\ h.ret = "false") =>
                 /\ isExpired(cache.storage[key], now)
                 /\ key \notin DOMAIN h.this.storage
                 /\ h.this.accessOrder =
                       SelectSeq(cache.accessOrder, LAMBDA r : r.key # key)

\* An expired entry beside a live one that is not the latest used, after hits
\* and misses were counted.
C30_Witness ==
    /\ cache.stats.hits > 0
    /\ cache.stats.misses > 0
    /\ \E k1, k2 \in Keys :
          /\ k1 # k2
          /\ k1 \in DOMAIN cache.storage
          /\ k2 \in DOMAIN cache.storage
          /\ isExpired(cache.storage[k1], now)
          /\ ~isExpired(cache.storage[k2], now)
          /\ cache.storage[k2].accessCount > 0
          /\ cache.accessOrder[1].key = k2

----------------------------------------------------------------------------
(* Properties of overlapping getOrSet calls *)

\* The callers whose getOrSet call waits for its fetch of key.
Fetching(key) == {c \in Callers : calls[c].pc = "fetching" /\ calls[c].key = key}

\* C22: a getOrSet call in flight does not keep another caller from fetching:
\* while a call waits for its fetch of a key that get misses, getOrSet for
\* that key misses too and invokes fetchFunction; every call in flight has
\* invoked its fetchFunction once; and when two calls in flight for one key
\* end one after the other, the entry left under the key holds the value of
\* the second one that set accepts (the first one's if set refuses the
\* second value for its size).
C22_NoSingleFlight ==
    /\ \A c \in Callers : calls[c].pc = "fetching" => calls[c].fetches = 1
    /\ \A key \in SharedKeys :
          (Fetching(key) # {} /\ get(cache, key, now).ret = "miss") =>
              LET b == getOrSetBegin(cache, key, now)
              IN b.got = "miss" /\ b.outcome = "await" /\ b.fetches = 1
    /\ \A key \in SharedKeys, c1, c2 \in Callers, v1, v2 \in FetchedValues :
          (c1 # c2 /\ {c1, c2} \subseteq Fetching(key)) =>
              LET first  == getOrSetEnd(cache, key, v1, calls[c1].ttl, now)
                  second == getOrSetEnd(first.this, key, v2, calls[c2].ttl, now)
                  fits(v) == getMemorySize(v) <= cache.maxMemorySize
              IN /\ fits(v2) =>
                       /\ key \in DOMAIN second.this.storage
                       /\ second.this.storage[key].value = v2
                 /\ (fits(v1) /\ ~fits(v2)) =>
                       /\ key \in DOMAIN second.this.storage
                       /\ second.this.storage[key].value = v1

\* Two calls wait for their fetch of the same key, which both missed and
\* which is still absent.
C22_Witness ==
    /\ Fetching("a") = Callers
    /\ "a" \notin DOMAIN cache.storage

----------------------------------------------------------------------------
(* Properties of the janitor *)

\* The entry under key of the managed cache name has run out.
ManagedExpired(name, key) ==
    /\ key \in DOMAIN managed[name].storage
    /\ managed[name].storage[key].expiresAt # Null
    /\ managed[name].storage[key].expiresAt < now

\* In the next state no managed cache holds an entry that has run out.
AllSwept ==
    \A name \in ManagedNames, key \in ManagedKeys :
        key \in DOMAIN managed'[name].storage =>
            \/ managed'[name].storage[key].expiresAt = Null
            \/ managed'[name].storage[key].expiresAt >= now

\* C21: startCacheCleanup sweeps the three managed caches at once and sets
\* the timer one interval ahead; each firing of the timer sweeps the three
\* again and sets it one interval ahead; and while the janitor runs, an entry
\* of a managed cache whose expiresAt has passed is eventually gone (removed,
\* or replaced by a set), with no get, has or set needed.
C21_JanitorRemovesExpired ==
    /\ [][(~janitor.running /\ janitor'.running) =>
              (AllSwept /\ janitor'.due = now + JanitorInterval)]_vars
    /\ [][(janitor.running /\ janitor'.running /\ janitor' # janitor) =>
              (now >= janitor.due /\ AllSwept /\ janitor'.due = now + JanitorInterval)]_vars
    /\ \A name \in ManagedNames, key \in ManagedKeys :
          (janitor.running /\ ManagedExpired(name, key))
              ~> (~janitor.running \/ ~ManagedExpired(name, key))

\* The janitor runs and each of the three caches holds an entry that ran out.
C21_Witness ==
    /\ janitor.running
    /\ \A name \in ManagedNames : ManagedExpired(name, "a")

----------------------------------------------------------------------------
(* Properties of the CircuitBreaker: overlapping calls, time, statistics *)

\* C23: HALF_OPEN admits every caller: whenever the state is HALF_OPEN,
\* however many admitted calls are still running, execute lets the next call
\* through, invokes its fn and leaves the state HALF_OPEN; so two calls
\* admitted in HALF_OPEN can be running at once.
C23_HalfOpenAdmitsAll ==
    breaker.state = "HALF_OPEN" =>
        LET r == executeBegin(breaker, now)
        IN /\ r.outcome = "await"
           /\ r.invoked = 1
           /\ r.this.state = "HALF_OPEN"

\* Two calls admitted in HALF_OPEN are running and the state is HALF_OPEN.
C23_Witness ==
    /\ breaker.state = "HALF_OPEN"
    /\ Cardinality(Trials) >= 2

\* C27: time alone changes nothing: a step in which Date.now() moves leaves
\* the breaker as it was, a step that changes the breaker is the admission
\* or the end of an execute call, and the state leaves OPEN only for
\* HALF_OPEN, in the step where execute admits a call after resetTimeout has
\* elapsed.
C27_NoBackgroundTimer ==
    [][/\ now' # now => breaker' = breaker
       /\ breaker' # breaker => \E c \in Callers : execs'[c] # execs[c]
       /\ (breaker.state = "OPEN" /\ breaker'.state # "OPEN") =>
             /\ breaker'.state = "HALF_OPEN"
             /\ SinceFailure >= breaker.resetTimeout
             /\ \E c \in Callers : execs[c].pc = "idle" /\ execs'[c].pc = "running"]_vars

\* The breaker is still OPEN with more than resetTimeout gone since the last
\* failure and no call in progress.
C27_Witness ==
    /\ breaker.state = "OPEN"
    /\ SinceFailure > breaker.resetTimeout
    /\ Running = {}

\* C28: totalRequests is the number of invocations of the wrapped operation
\* that have ended, totalFailures the number of those that failed,
\* totalTimeouts the number of those that failed with code ETIMEDOUT, so
\* totalTimeouts <= totalFailures <= totalRequests; lastError is the error of
\* the latest failure.
C28_StatsCountCompletions ==
    /\ breaker.stats.totalRequests = tally.ended
    /\ breaker.stats.totalFailures = tally.failed
    /\ breaker.stats.totalTimeouts = tally.timedOut
    /\ breaker.stats.totalTimeouts <= breaker.stats.totalFailures
    /\ breaker.stats.totalFailures <= breaker.stats.totalRequests
    /\ breaker.stats.lastError = tally.lastError

\* A success, a timeout and then a failure that is no timeout have been
\* recorded, and a call is still running.
C28_Witness ==
    /\ tally.resolved >= 1
    /\ tally.timedOut = 1
    /\ tally.failed = 2
    /\ tally.lastError = ErrServer
    /\ Running # {}

\* C29: averageResponseTime is the arithmetic mean of the response times
\* passed to recordSuccess so far (0 before the first success), whatever
\* failures were recorded in between.
C29_AverageIsMeanOfSuccesses ==
    LET avg == breaker.stats.averageResponseTime
    IN IF tally.resolved = 0
       THEN avg.num = 0
       ELSE avg.num * tally.resolved = tally.sumTimes * avg.den

----------------------------------------------------------------------------
(* Properties of retry: the order of a backoff, the delay, the default      *)
(* retryCondition                                                           *)

\* The events of kind ev that the log holds for attempt k.
EventsOf(log, ev, k) == {i \in 1..Len(log) : log[i].ev = ev /\ log[i].attempt = k}

\* C24: in the log of a run, the failure of an attempt k that retryCondition
\* accepts and that is not the last is followed at once by one call of
\* onRetry with that error and k (when the onRetry option is a function),
\* then by the sleep for a delay calculateDelay gives for attempt k, then by
\* the firing of that sleep's timer, and only then by the call of fn for
\* attempt k + 1; onRetry is called at most once per attempt, and every
\* attempt after the first starts right after the timer of the sleep of the
\* attempt before it has fired.
C24_RetryProtocolOrder ==
    LET log == run.log
        config == run.config
        told == IF config.onRetry THEN 1 ELSE 0
        Delays(k) == {calculateDelay(k, config, random) : random \in Randoms}
    IN /\ \A i \in 1..Len(log) :
             (/\ log[i].ev = "fail"
              /\ retryCondition(config, log[i].what)
              /\ log[i].attempt < config.maxAttempts) =>
                 LET k == log[i].attempt
                     s == i + told + 1
                 IN /\ Len(log) >= s
                    /\ config.onRetry => log[i + 1] = Event("onRetry", k, log[i].what)
                    /\ log[s].ev = "sleep"
                    /\ log[s].attempt = k
                    /\ log[s].what \in Delays(k)
                    /\ Len(log) > s => log[s + 1] = Event("wake", k, NoError)
                    /\ Len(log) > s + 1 => log[s + 2] = Event("fn", k + 1, NoError)
       /\ \A k \in 1..MaxAttempts :
             /\ Cardinality(EventsOf(log, "onRetry", k)) <= 1
             /\ Cardinality(EventsOf(log, "sleep", k)) <= 1
             /\ config.onRetry =>
                   EventsOf(log, "onRetry", k) = {i - 1 : i \in EventsOf(log, "sleep", k)}
             /\ ~config.onRetry => EventsOf(log, "onRetry", k) = {}
       /\ \A i \in 1..Len(log) :
             (log[i].ev = "fn" /\ log[i].attempt > 1) =>
                 /\ i > 2
                 /\ log[i - 1] = Event("wake", log[i].attempt - 1, NoError)
                 /\ log[i - 2].ev = "sleep"
                 /\ log[i - 2].attempt = log[i].attempt - 1
       /\ run.pc = "sleep" <=> (Len(log) > 0 /\ log[Len(log)].ev = "sleep")

\* The third attempt is under way after two backoffs with onRetry and jitter,
\* the second of them cut by maxDelay.
C24_Witness ==
    /\ run.pc = "fn"
    /\ run.attempt = 3
    /\ run.config.onRetry
    /\ run.config.jitter
    /\ run.config.baseDelay * run.config.exponentialBase > run.config.maxDelay
    /\ Count(run.log, "wake") = 2
    /\ Count(run.log, "onRetry") = 2

\* C25: for attempt n the delay without jitter is
\* min(baseDelay * exponentialBase^(n-1), maxDelay); with jitter it is at
\* least 90% and at most 110% of that capped value, and not negative.
C25_DelayFormula ==
    (probe.fn = "calculateDelay" /\ probe.done) =>
        LET config == probe.config
            capped == Min(config.baseDelay * Pow(config.exponentialBase, probe.attempt - 1),
                          config.maxDelay)
            delay == probe.output
        IN /\ delay.den > 0
           /\ ~config.jitter => delay.num = capped * delay.den
           /\ config.jitter =>
                 /\ 10 * delay.num >= 9 * capped * delay.den
                 /\ 10 * delay.num <= 11 * capped * delay.den
                 /\ delay.num >= 0

\* A delay with jitter that came out above the value maxDelay cut it to.
C25_Witness ==
    /\ probe.fn = "calculateDelay"
    /\ probe.done
    /\ probe.config.jitter
    /\ probe.config.baseDelay * Pow(probe.config.exponentialBase, probe.attempt - 1)
           > probe.config.maxDelay
    /\ probe.output.num > probe.config.maxDelay * probe.output.den

----------------------------------------------------------------------------
(* Properties of the CircuitBreaker: the call turned away, the failure count *)

\* C39: an execute call that the OPEN breaker turns away invokes nothing and
\* leaves the breaker as it was: state, failureCount, lastFailureTime and
\* every field of stats; so the time the breaker stays OPEN is still counted
\* from the last recorded failure.
C39_RejectedCallChangesNothing ==
    LET r == executeBegin(breaker, now)
    IN /\ (breaker.state = "OPEN" /\ SinceFailure < breaker.resetTimeout) =>
             r.outcome = "throw"
       /\ r.outcome = "throw" =>
             /\ r.invoked = 0
             /\ r.error = CircuitOpen
             /\ r.this = breaker

\* An OPEN breaker that turns callers away, some time after its last failure
\* and with a success, a failure and a timeout in its statistics.
C39_Witness ==
    /\ breaker.state = "OPEN"
    /\ breaker.resetTimeout = 2
    /\ SinceFailure = 1
    /\ breaker.stats.totalRequests >= 2
    /\ breaker.stats.totalTimeouts >= 1
    /\ breaker.stats.averageResponseTime.num > 0

\* C35: whatever the interleaving of the execute calls, an OPEN or HALF_OPEN
\* breaker has failureCount >= failureThreshold and a CLOSED one has
\* failureCount < failureThreshold.
C35_StateMatchesFailureCount ==
    /\ breaker.state \in {"OPEN", "HALF_OPEN"} =>
          breaker.failureCount >= breaker.failureThreshold
    /\ breaker.state = "CLOSED" => breaker.failureCount < breaker.failureThreshold

----------------------------------------------------------------------------
(* Properties of retry: the size of the delay *)

\* The delays the log of the run says retry slept for.
Slept == {i \in 1..Len(run.log) : run.log[i].ev = "sleep"}

\* C38 as stated: no delay between two attempts exceeds maxDelay, with or
\* without jitter.
C38_DelayWithinMaxDelay ==
    \A i \in Slept :
        run.log[i].what.num <= run.config.maxDelay * run.log[i].what.den

\* C38: without jitter no delay between two attempts exceeds maxDelay; with
\* jitter none exceeds maxDelay by more than 10%.
C38_DelayWithinMaxDelayAndJitter ==
    \A i \in Slept :
        LET delay == run.log[i].what
        IN /\ ~run.config.jitter => delay.num <= run.config.maxDelay * delay.den
           /\ run.config.jitter =>
                 10 * delay.num <= 11 * run.config.maxDelay * delay.den

\* A run slept without jitter for maxDelay, cut from a larger delay.
C38_Witness ==
    /\ ~run.config.jitter
    /\ run.config.baseDelay * run.config.exponentialBase > run.config.maxDelay
    /\ \E i \in Slept :
          /\ run.log[i].attempt = 2
          /\ run.log[i].what = Fraction(run.config.maxDelay, 1)

----------------------------------------------------------------------------
(* Properties of set: the order of its steps, expiry, the memory ceiling    *)

\* The keys whose entry is stored and has not run out.
Unexpired == {k \in DOMAIN cache.storage : ~isExpired(cache.storage[k], now)}

\* The sweep alone takes a full store below maxSize.
SweepMakesRoom ==
    /\ MapSize(cache.storage) >= cache.maxSize
    /\ Cardinality(Unexpired) < cache.maxSize

\* C31 as stated: when the sweep of the expired entries alone brings
\* storage.size below maxSize, the set removes no unexpired entry.
C31_SweepSparesUnexpired ==
    \A key \in Keys, value \in Values, ttl \in TTLs :
        LET r == set(cache, key, value, ttl, now)
        IN (SweepMakesRoom /\ r.ret = "true") =>
               Unexpired \subseteq DOMAIN r.this.storage

\* C31: set sweeps the expired entries, and exactly those, before it tests
\* the entry count: when the sweep alone brings storage.size below maxSize
\* the entry-count check evicts nothing, and no unexpired entry is removed
\* by that set unless the memory loop has to make room for the new value.
C31_SweepBeforeCountCheck ==
    \A key \in Keys, value \in Values, ttl \in TTLs :
        LET r == set(cache, key, value, ttl, now)
        IN r.ret = "true" =>
              /\ r.swept = (DOMAIN cache.storage) \ Unexpired
              /\ SweepMakesRoom =>
                    /\ r.countEvicted = {}
                    /\ r.memEvicted = {} => Unexpired \subseteq DOMAIN r.this.storage
                    /\ SumSizes(cache.storage, Unexpired) + getMemorySize(value)
                           <= cache.maxMemorySize => r.memEvicted = {}

\* A full store of two entries, one run out and one not.
C31_Witness ==
    /\ cache.maxSize = 2
    /\ SweepMakesRoom
    /\ Cardinality(Unexpired) = 1

\* C32: an entry stored with ttl = 0 has no expiresAt, and an entry without
\* expiresAt is served by get and reported by has at every later time and
\* is left in place, unchanged, by cleanupExpired and by the sweep inside
\* set, however far the clock has moved.
C32_NoTtlNeverExpires ==
    LET Later == (now..MaxTime) \cup {1000 * (MaxTime + 1)}
    IN /\ \A key \in Keys, value \in Values :
             LET r == set(cache, key, value, 0, now)
             IN r.ret = "true" =>
                   /\ r.this.storage[key].expiresAt = Null
                   /\ \A t \in Later : get(r.this, key, t).ret = "hit"
       /\ \A k \in DOMAIN cache.storage :
             cache.storage[k].expiresAt = Null =>
                 \A t \in Later :
                     /\ ~isExpired(cache.storage[k], t)
                     /\ get(cache, k, t).ret = "hit"
                     /\ get(cache, k, t).val = cache.storage[k].value
                     /\ has(cache, k, t).ret = "true"
                     /\ k \in DOMAIN cleanupExpired(cache, t).storage
                     /\ cleanupExpired(cache, t).storage[k] = cache.storage[k]
                     /\ \A key \in Keys, value \in Values, ttl \in TTLs :
                           k \notin set(cache, key, value, ttl, t).swept

\* At the end of the clock an entry stored at time 0 without expiresAt is
\* still there, beside an entry that has run out.
C32_Witness ==
    /\ now = MaxTime
    /\ AnExpiredEntry
    /\ \E k \in DOMAIN cache.storage :
          /\ cache.storage[k].expiresAt = Null
          /\ cache.storage[k].createdAt = 0

\* C33: memoryUsage never exceeds maxMemorySize; a set whose value fits
\* the ceiling returns true with the value stored, evicts for memory only
\* when the value does not fit beside what the earlier steps left, evicts
\* the least recently used of those entries, and stops with the value
\* fitting or nothing left.
C33_MemoryCeiling ==
    /\ cache.memoryUsage <= cache.maxMemorySize
    /\ \A key \in Keys, value \in Values, ttl \in TTLs :
          LET r == set(cache, key, value, ttl, now)
              size == getMemorySize(value)
              left == (DOMAIN cache.storage) \ (r.swept \cup r.countEvicted)
              kept == left \ r.memEvicted
          IN size <= cache.maxMemorySize =>
                /\ r.ret = "true"
                /\ r.this.storage[key].value = value
                /\ r.this.memoryUsage <= cache.maxMemorySize
                /\ r.memEvicted # {} =>
                      SumSizes(cache.storage, left) + size > cache.maxMemorySize
                /\ \/ kept = {}
                   \/ SumSizes(cache.storage, kept) + size <= cache.maxMemorySize
                /\ \A e \in r.memEvicted, k \in kept :
                      AccessTime(cache, e) <= AccessTime(cache, k)

\* A store with room for another entry by count, where a set of a number
\* has to evict for memory.
C33_Witness ==
    /\ cache.maxSize = 2
    /\ MapSize(cache.storage) = 1
    /\ \E key \in Keys \ DOMAIN cache.storage :
          LET r == set(cache, key, Num(1), 0, now)
          IN r.countEvicted = {} /\ r.swept = {} /\ r.memEvicted # {}

\* C34: a set for a key that is stored and unexpired, with a value that fits
\* once the old entry's size is subtracted, removes no other unexpired
\* entry.
C34_OverwriteKeepsOthers ==
    \A key \in Unexpired, value \in Values, ttl \in TTLs :
        LET r == set(cache, key, value, ttl, now)
        IN cache.memoryUsage - cache.storage[key].size + getMemorySize(value)
               <= cache.maxMemorySize =>
                   Unexpired \subseteq DOMAIN r.this.storage

----------------------------------------------------------------------------
(* Properties of a second getOrSet call *)

\* The second getOrSet(key) call at time t, after the call of caller c
\* returned value: nothing runs between the two but the clock.
SecondCall(c, value, t) ==
    getOrSetBegin(getOrSetEnd(cache, calls[c].key, value, calls[c].ttl, now).this,
                  calls[c].key, t)

\* The times from the return of a getOrSet call to the end of the ttl it
\* stored with.
WithinTTL(c) ==
    {t \in now..MaxTime : calls[c].ttl = 0 \/ t <= now + calls[c].ttl}

\* C36 as claimed: after getOrSet(key, fetch) returned a value, a second
\* getOrSet on the key within the ttl returns the same value without a fetch,
\* whatever the value: null and a value refused for its size included.
C36_SecondCallNeverFetches ==
    \A c \in Callers : (calls[c].pc = "fetching" /\ calls[c].key # EmptyKey) =>
        \A value \in Values, t \in WithinTTL(c) :
            LET b == SecondCall(c, value, t)
            IN b.outcome = "return" /\ b.val = value /\ b.fetches = 0

\* C36 as the code has it: after getOrSet(key, fetch) returned a value other
\* than null whose size is within maxMemorySize, a second getOrSet on the key
\* within the ttl returns the same value without a fetch; after a null the
\* second call fetches again, and after a value refused for its size it does
\* what it would have done had the first call not happened: it fetches again
\* unless another call stored a value other than null under the key during
\* the first fetch.
C36_SecondCallFetchesNullAndOversize ==
    \A c \in Callers : (calls[c].pc = "fetching" /\ calls[c].key # EmptyKey) =>
        \A value \in Values, t \in WithinTTL(c) :
            LET b == SecondCall(c, value, t)
                fits == getMemorySize(value) <= cache.maxMemorySize
            IN IF ~fits
               THEN /\ b = getOrSetBegin(cache, calls[c].key, t)
                    /\ ~Cached(calls[c].key) => b.outcome = "await" /\ b.fetches = 1
               ELSE IF value = VNull
               THEN b.outcome = "await" /\ b.fetches = 1 /\ b.got = "hit"
               ELSE b.outcome = "return" /\ b.val = value /\ b.fetches = 0

\* A getOrSet call waits for its fetch of a key that is not stored; resolved
\* with a number the second call returns it at once, resolved with null or
\* with a string set refuses the second call fetches again.
C36_Witness ==
    \E c \in Callers :
        /\ calls[c].pc = "fetching" /\ calls[c].key # EmptyKey
        /\ calls[c].key \notin DOMAIN cache.storage
        /\ cache.stats.sets > 0
        /\ \E value \in Values : SecondCall(c, value, now).fetches = 0
        /\ SecondCall(c, VNull, now).fetches = 1
        /\ \E value \in Values :
              /\ getMemorySize(value) > cache.maxMemorySize
              /\ SecondCall(c, value, now).fetches = 1

----------------------------------------------------------------------------
(* Termination of set *)

\* C40: set always terminates: every round of its memory loop removes at
\* least one entry, so the loop runs no more rounds than the store held entries
\* when the loop was entered, and every call of set comes to its end, for every
\* maxSize >= 1 and every store content.
C40_SetTerminates ==
    /\ [][(probe.pc = "loop" /\ probe'.pc = "loop") =>
              MapSize(probe'.this.storage) < MapSize(probe.this.storage)]_vars
    /\ [](probe.pc \in {"loop", "insert"} =>
            probe.rounds + MapSize(probe.this.storage) <= probe.before)
    /\ <>(probe.pc = "done")

\* A call of set has ended after three rounds of its memory loop, with what
\* the method computed at once.
C40_Witness ==
    /\ probe.pc = "done"
    /\ probe.rounds = 3
    /\ probe.ret = "true"
    /\ probe.this = set(probe.start, probe.key, probe.value, probe.ttl, probe.t).this

----------------------------------------------------------------------------
(* Recovery of the CircuitBreaker *)

\* C37: breaker recovery: when from some point on the wrapped operation
\* always succeeds and execute keeps being called, an OPEN breaker eventually
\* reaches CLOSED, which it enters from HALF_OPEN only; once the operation has
\* recovered a CLOSED breaker stays CLOSED, and in the end the breaker is
\* CLOSED for good and every execute call invokes the wrapped operation.
C37_BreakerRecovers ==
    /\ (breaker.state = "OPEN") ~> (breaker.state = "CLOSED")
    /\ [][(breaker.state # "CLOSED" /\ breaker'.state = "CLOSED") =>
              breaker.state = "HALF_OPEN"]_vars
    /\ [][(~MayStillFail /\ breaker.state = "CLOSED") =>
              breaker'.state = "CLOSED"]_vars
    /\ <>[](/\ breaker.state = "CLOSED"
            /\ executeBegin(breaker, now).outcome = "await"
            /\ executeBegin(breaker, now).invoked = 1)

\* After the operation has recovered, a breaker that was OPEN has admitted
\* its trial call and waits for it in HALF_OPEN.
C37_Witness ==
    /\ ~MayStillFail
    /\ now > MaxTime
    /\ breaker.state = "HALF_OPEN"
    /\ Running # {}

====
